---- MODULE Spec2Model ----
(***************************************************************************)
(* A model of the command dispatch core of the Discord self-bot:           *)
(*   - CommandRegistry   (src/src/services/command_registry.py)            *)
(*   - BaseCommand       (src/src/core/base_command.py)                    *)
(*   - BotStatsService   (src/src/services/bot_stats.py)                   *)
(*   - DiscordService    (src/src/services/discord_service.py)             *)
(* Each component has its own specification over the shared variables:     *)
(* SpecRegistry, SpecPipeline, SpecStats (FairSpecStats adds fairness),    *)
(* SpecMatching, SpecCommands and SpecPing.                                *)
(* Strings that the code inspects character by character (triggers,        *)
(* message contents) are sequences of one-character strings.               *)
(***************************************************************************)
EXTENDS Integers, Sequences, FiniteSets, Bags, TLC

VARIABLES
    \* ---- CommandRegistry ----
    commands,        \* self._commands: dict trigger -> command, as the insertion-ordered sequence of its values
    command_names,   \* self._command_names: dict name -> command
    reg_stats,       \* self._stats
    reg_calls,       \* number of registry calls made so far (bounds the model)
    reg_last,        \* the last registry call: operation, argument, outcome, mappings before it
    \* ---- BaseCommand (one command instance) ----
    config,          \* self.config: enabled, cooldown (0 models None and 0)
    last_execution,  \* self._last_execution: dict user id -> time of the last ledger write (ms)
    now,             \* the wall clock time.time(), in ms
    inv,             \* the invocations of execute in flight, one per task
    last_inner,      \* history: per user, the inner execution of that user that ended last
    executions,      \* number of calls of execute so far (bounds the model)
    \* ---- BotStatsService and the dispatcher of DiscordService ----
    stats,           \* the BotStatsService object: its counters, metrics and lock
    calls,           \* per task: the call it made last, and where that call stands
    stats_calls,     \* number of calls made so far (bounds the model)
    history,         \* per command name, the bag of the executions recorded
                     \* since the construction or the last reset_stats
    \* ---- PingCommand and HelpCommand ----
    session,         \* the executions of the two commands made so far, their
                     \* cooldown ledgers, the clock and the surroundings
    \* ---- the locks of BaseCommand and CommandRegistry ----
    execution_lock,  \* the tasks inside 'async with self._execution_lock'
    registry_lock,   \* the tasks inside 'async with self._lock' of the registry
    reg_tasks,       \* per task: the registry call it is in, and where it stands
    \* ---- DiscordService and DiscordSelfBot: start and stop ----
    service          \* _is_running, _shutdown_event, the client and its connection task, where start() and stop() stand

regVars == <<commands, command_names, reg_stats, reg_calls, reg_last>>

pipeVars == <<config, last_execution, now, inv, last_inner, executions>>

statsVars == <<stats, calls, stats_calls, history>>

lockVars == <<execution_lock, registry_lock, reg_tasks, service>>

cmdVars == <<session, execution_lock, registry_lock, reg_tasks, service>>

vars == <<commands, command_names, reg_stats, reg_calls, reg_last,
          config, last_execution, now, inv, last_inner, executions,
          stats, calls, stats_calls, history, session,
          execution_lock, registry_lock, reg_tasks, service>>

(***************************************************************************)
(* Small helpers                                                           *)
(***************************************************************************)

\* str.startswith(prefix)
StartsWith(s, prefix) ==
    /\ Len(prefix) <= Len(s)
    /\ \A i \in 1..Len(prefix) : s[i] = prefix[i]

\* The sequence s without its i-th element
RemoveAt(s, i) == [j \in 1..(Len(s) - 1) |-> IF j < i THEN s[j] ELSE s[j + 1]]

(***************************************************************************)
(* Commands offered to the registry                                        *)
(***************************************************************************)

\* Distinct command objects that agree on every attribute differ in "copy"
Copies == {1, 2}

Names == {"ping", "help"}

Triggers == {<<".", "p">>, <<".", "p", "h">>}

\* Python's None passed as the command
NoneCommand ==
    [name |-> "", trigger |-> <<>>, description |-> "", has_execute |-> FALSE,
     enabled |-> FALSE, copy |-> 0]

ValidCommands ==
    [name : Names, trigger : Triggers, description : {"d"}, has_execute : {TRUE},
     enabled : {TRUE}, copy : Copies]

\* One malformed command per check of _validate_command
InvalidCommands ==
    { [name |-> "", trigger |-> <<".", "p">>, description |-> "d", has_execute |-> TRUE, enabled |-> TRUE, copy |-> 1],
      [name |-> "ping", trigger |-> <<".", "p">>, description |-> "", has_execute |-> TRUE, enabled |-> TRUE, copy |-> 1],
      [name |-> "ping", trigger |-> <<>>, description |-> "d", has_execute |-> TRUE, enabled |-> TRUE, copy |-> 1],
      [name |-> "ping", trigger |-> <<".", "p">>, description |-> "d", has_execute |-> FALSE, enabled |-> TRUE, copy |-> 1],
      [name |-> "ping", trigger |-> <<"p">>, description |-> "d", has_execute |-> TRUE, enabled |-> TRUE, copy |-> 1] }

CommandInputs == ValidCommands \cup InvalidCommands \cup {NoneCommand}

TriggerInputs == Triggers \cup {<<>>, <<"p">>}

\* The registry makes at most this many calls in a run of the model
MaxRegCalls == 4

(***************************************************************************)
(* CommandRegistry                                                         *)
(***************************************************************************)

\* trigger in self._commands
HasTrigger(cmds, trigger) == \E i \in 1..Len(cmds) : cmds[i].trigger = trigger

\* position of the key in the dict (0 when absent)
IndexOfTrigger(cmds, trigger) ==
    IF HasTrigger(cmds, trigger)
    THEN CHOOSE i \in 1..Len(cmds) : cmds[i].trigger = trigger
    ELSE 0

\* self._commands.get(trigger): the stored command, NoneCommand when absent
CommandAt(cmds, trigger) ==
    IF HasTrigger(cmds, trigger) THEN cmds[IndexOfTrigger(cmds, trigger)] ELSE NoneCommand

\* self._commands[command.trigger] = command: an existing key keeps its position
StoreByTrigger(cmds, command) ==
    IF HasTrigger(cmds, command.trigger)
    THEN [cmds EXCEPT ![IndexOfTrigger(cmds, command.trigger)] = command]
    ELSE Append(cmds, command)

\* a name mapping that keeps the first command stored under a name (dict.setdefault)
StoreByNameKeepFirst(names, command) ==
    [n \in (DOMAIN names) \cup {command.name} |->
        IF n \in DOMAIN names THEN names[n] ELSE command]

\* self._command_names[command.name] = command
StoreByName(names, command) ==
    [n \in (DOMAIN names) \cup {command.name} |->
        IF n = command.name THEN command ELSE names[n]]

\* del self._command_names[name] (guarded by "if command.name in self._command_names")
DeleteName(names, name) == [n \in (DOMAIN names) \ {name} |-> names[n]]

\* a _validate_command without the check of the trigger's prefix
ValidateCommandAnyPrefix(command) ==
    IF command.name = "" THEN "MISSING_NAME"
    ELSE IF command.description = "" THEN "MISSING_DESCRIPTION"
    ELSE IF command.trigger = <<>> THEN "MISSING_TRIGGER"
    ELSE IF ~command.has_execute THEN "MISSING_EXECUTE_METHOD"
    ELSE ""

\* _validate_command: the error code raised, "" when the command is valid
ValidateCommand(command) ==
    IF command.name = "" THEN "MISSING_NAME"
    ELSE IF command.description = "" THEN "MISSING_DESCRIPTION"
    ELSE IF command.trigger = <<>> THEN "MISSING_TRIGGER"
    ELSE IF ~command.has_execute THEN "MISSING_EXECUTE_METHOD"
    ELSE IF ~StartsWith(command.trigger, <<".">>) THEN "INVALID_TRIGGER_FORMAT"
    ELSE ""

\* a register without the duplicate-name check
DuplicateNameNever(names, command) == FALSE

\* the duplicate-name check of register
DuplicateName(names, command) ==
    /\ command.name \in DOMAIN names
    /\ names[command.name].trigger # command.trigger

\* the outcome of register(command) in a registry whose name mapping is names
RegisterOutcome(names, command) ==
    IF command = NoneCommand THEN "ValidationError:NULL_COMMAND"
    ELSE IF ValidateCommand(command) # "" THEN "ValidationError:" \o ValidateCommand(command)
    ELSE IF DuplicateName(names, command) THEN "CommandError:DUPLICATE_COMMAND_NAME"
    ELSE "ok"

\* an unregister that leaves the name mapping alone
UnregisteredNamesKept(names, command) == names

\* the name mapping after unregister removed command from the trigger mapping
UnregisteredNames(names, command) ==
    IF command.name \in DOMAIN names THEN DeleteName(names, command.name) ELSE names

Called(op, arg, outcome) ==
    [op |-> op, arg |-> arg, outcome |-> outcome,
     pre_commands |-> commands, pre_names |-> command_names]

\* CommandRegistry.register
Register(command) ==
    /\ reg_calls < MaxRegCalls
    /\ UNCHANGED <<pipeVars, statsVars, cmdVars>>
    /\ reg_calls' = reg_calls + 1
    /\ LET outcome == RegisterOutcome(command_names, command) IN
        /\ reg_last' = Called("register", command, outcome)
        /\ IF outcome = "ok"
           THEN /\ commands' = StoreByTrigger(commands, command)
                /\ command_names' = StoreByName(command_names, command)
                /\ reg_stats' = [reg_stats EXCEPT !.total_registered = @ + 1]
           ELSE IF outcome = "CommandError:DUPLICATE_COMMAND_NAME"
           THEN /\ reg_stats' = [reg_stats EXCEPT !.registration_errors = @ + 1]
                /\ UNCHANGED <<commands, command_names>>
           ELSE UNCHANGED <<commands, command_names, reg_stats>>

\* CommandRegistry.unregister
Unregister(trigger) ==
    /\ reg_calls < MaxRegCalls
    /\ UNCHANGED <<pipeVars, statsVars, cmdVars>>
    /\ reg_calls' = reg_calls + 1
    /\ IF trigger # <<>> /\ HasTrigger(commands, trigger)
       THEN /\ commands' = RemoveAt(commands, IndexOfTrigger(commands, trigger))
            /\ command_names' = UnregisteredNames(command_names, CommandAt(commands, trigger))
            /\ reg_stats' = [reg_stats EXCEPT !.total_unregistered = @ + 1]
            /\ reg_last' = Called("unregister", trigger, "true")
       ELSE /\ reg_last' = Called("unregister", trigger, "false")
            /\ UNCHANGED <<commands, command_names, reg_stats>>

\* CommandRegistry.clear
Clear ==
    /\ reg_calls < MaxRegCalls
    /\ UNCHANGED <<pipeVars, statsVars, cmdVars>>
    /\ reg_calls' = reg_calls + 1
    /\ commands' = <<>>
    /\ command_names' = <<>>
    /\ reg_last' = Called("clear", <<>>, "ok")
    /\ UNCHANGED reg_stats

InitRegistry ==
    /\ commands = <<>>
    /\ command_names = <<>>
    /\ reg_stats = [total_registered |-> 0, total_unregistered |-> 0, registration_errors |-> 0]
    /\ reg_calls = 0
    /\ reg_last = [op |-> "none", arg |-> <<>>, outcome |-> "ok",
                   pre_commands |-> <<>>, pre_names |-> <<>>]

NextRegistry ==
    \/ \E command \in CommandInputs : Register(command)
    \/ \E trigger \in TriggerInputs : Unregister(trigger)
    \/ Clear

(***************************************************************************)
(* BaseCommand: the execution pipeline of one command instance             *)
(*                                                                         *)
(* asyncio runs a task until it suspends.  execute suspends in two places: *)
(* in execute_command (the command's own awaits) and in the message.edit   *)
(* of _handle_error.  The lock of the ledger is never held across either,  *)
(* so acquiring it never suspends: every action below is one run of a task *)
(* from one suspension to the next.  Times are integers in ms; the code    *)
(* compares the same quantities as float seconds.                          *)
(***************************************************************************)

Tasks == {1, 2}

Users == {1, 2}

\* message.author is None
NoAuthor == 0

\* the cooldown a command is configured with, in ms, when it has one
Cooldown == 2

\* the clock ticks at most this many times in a run of the model
MaxTicks == 3

\* execute is called at most this many times in a run of the model
MaxExecutions == 2

\* time.time() is the Unix time, far above any cooldown: the model starts the
\* clock at the smallest reading that is a cooldown past the epoch
StartTime == Cooldown

\* the command the pipeline wraps
CommandName == "ping"

CommandTrigger == <<".", "p">>

\* str.strip()
RECURSIVE LStrip(_)
LStrip(s) == IF s # <<>> /\ Head(s) = " " THEN LStrip(Tail(s)) ELSE s

RECURSIVE RStrip(_)
RStrip(s) ==
    IF s # <<>> /\ s[Len(s)] = " " THEN RStrip(SubSeq(s, 1, Len(s) - 1)) ELSE s

Strip(s) == RStrip(LStrip(s))

\* message.content; <<>> models both None and ""
Contents == {<<>>, <<" ", ".", "p", " ">>, <<"x">>}

\* the account the self-bot runs as: the dispatcher hands execute only the
\* messages of this user
Self == 1

\* the messages execute is called with: the account's own, of every content,
\* and one that has no author
Messages ==
    {m \in [author : {Self, NoAuthor}, content : Contents] :
        m.author = Self \/ StartsWith(Strip(m.content), CommandTrigger)}

Configs == [enabled : BOOLEAN, cooldown : {0, Cooldown}]

\* what execute_command does: it returns a result or raises
InnerReturns ==
    { [success |-> TRUE,  error |-> "", response_time |-> -1],
      [success |-> FALSE, error |-> "inner failure", response_time |-> -1],
      [success |-> TRUE,  error |-> "", response_time |-> 0] }

\* str(error) of the exceptions raised below a command, by message.edit or by
\* the client
LowTexts == {"Missing Permissions", "Cannot connect to host"}

\* the CommandError PingCommand.execute_command raises from any exception of
\* its inner logic; cause is the text of that exception
PingFailure(low) ==
    [type |-> "CommandError", message |-> "Failed to measure latency: " \o low,
     code |-> "LATENCY_MEASUREMENT_FAILED", cause |-> low]

\* what execute_command raises: the wrapped failure of ping, or, in another
\* subclass, an exception that is no CommandError
InnerRaises ==
    {PingFailure(low) : low \in LowTexts}
        \cup {[type |-> "RuntimeError", message |-> "boom", code |-> "", cause |-> ""]}

\* DiscordSelfBotError.__str__ / Exception.__str__
ErrorText(error) ==
    IF error.code # "" THEN "[" \o error.code \o "] " \o error.message ELSE error.message

\* the ValidationError execute raises for a message _validate_message rejects
InvalidMessageError ==
    [type |-> "ValidationError", message |-> "Invalid message format or content",
     code |-> "INVALID_MESSAGE", cause |-> ""]

\* the AttributeError of message.author.id when message.author is None
NoAuthorError ==
    [type |-> "AttributeError", message |-> "'NoneType' object has no attribute 'id'",
     code |-> "", cause |-> ""]

NoError == [type |-> "", message |-> "", code |-> "", cause |-> ""]

\* a command that ignores config.enabled
CommandEnabledAlways(cfg) == TRUE

\* the enabled check of execute
CommandEnabled(cfg) == cfg.enabled

\* a gate that demands strictly more than the cooldown
CheckCooldownStrict(ledger, user, time, cooldown) ==
    IF cooldown = 0 THEN TRUE
    ELSE (time - (IF user \in DOMAIN ledger THEN ledger[user] ELSE 0)) > cooldown

\* _check_cooldown
CheckCooldown(ledger, user, time, cooldown) ==
    IF cooldown = 0 THEN TRUE
    ELSE (time - (IF user \in DOMAIN ledger THEN ledger[user] ELSE 0)) >= cooldown

\* _get_cooldown_remaining, in ms
CooldownRemaining(ledger, user, time, cooldown) ==
    IF cooldown = 0 THEN 0
    ELSE LET remaining == cooldown - (time - (IF user \in DOMAIN ledger THEN ledger[user] ELSE 0))
         IN IF remaining > 0 THEN remaining ELSE 0

\* a _validate_message that does not look at what the content starts with
ValidateMessageAnyContent(message, trigger) ==
    /\ message.author # NoAuthor
    /\ message.content # <<>>

\* _validate_message
ValidateMessage(message, trigger) ==
    /\ message.author # NoAuthor
    /\ message.content # <<>>
    /\ StartsWith(Strip(message.content), trigger)

\* a ledger written before the inner execution, at the gate
UpdateCooldownNever(ledger, user, time, cooldown) == ledger

\* _update_cooldown
UpdateCooldown(ledger, user, time, cooldown) ==
    IF cooldown # 0
    THEN [u \in (DOMAIN ledger) \cup {user} |-> IF u = user THEN time ELSE ledger[u]]
    ELSE ledger

\* a _handle_error that shows the same notice for every exception
ErrorNoticeGeneric(error) == "An unexpected error occurred. Please try again."

\* the notice _handle_error edits into the message, after its cross mark
ErrorNotice(error) ==
    IF error.type = "CommandError" THEN "Command failed: " \o error.message
    ELSE IF error.type = "ValidationError" THEN "Invalid input. Please check your command format."
    ELSE "An unexpected error occurred. Please try again."

\* the result of the disabled fast path
DisabledResult(elapsed) ==
    [success |-> FALSE, error |-> "Command is currently disabled", remaining |-> -1,
     response_time |-> elapsed, metadata |-> <<>>]

\* the result of the cooldown fast path
CooldownResult(remaining, elapsed) ==
    [success |-> FALSE, error |-> "Command on cooldown", remaining |-> remaining,
     response_time |-> elapsed, metadata |-> <<>>]

\* an enrichment that leaves an unset response time unset
EnrichedResultUnfilled(inner, user, elapsed) ==
    [success |-> inner.success, error |-> inner.error, remaining |-> -1,
     response_time |-> inner.response_time,
     metadata |-> [command_name |-> CommandName, user_id |-> ToString(user)]]

\* the result execute returns after execute_command returned: response time
\* filled in when unset, command_name and user_id added to the metadata
EnrichedResult(inner, user, elapsed) ==
    [success |-> inner.success, error |-> inner.error, remaining |-> -1,
     response_time |-> IF inner.response_time = -1 THEN elapsed ELSE inner.response_time,
     metadata |-> [command_name |-> CommandName, user_id |-> ToString(user)]]

\* the result execute returns from its exception handler
ErrorResult(error, user, elapsed) ==
    [success |-> FALSE, error |-> ErrorText(error), remaining |-> -1,
     response_time |-> elapsed,
     metadata |-> [command_name |-> CommandName, user_id |-> ToString(user),
                   error_type |-> error.type]]

NoResult ==
    [success |-> FALSE, error |-> "", remaining |-> -1, response_time |-> -1,
     metadata |-> <<>>]

IdleInvocation ==
    [pc |-> "idle", message |-> [author |-> NoAuthor, content |-> <<>>], start |-> 0,
     error |-> NoError, error_time |-> 0, result |-> NoResult,
     edits |-> 0, shown |-> FALSE, inner_calls |-> 0, notice |-> "", cause |-> ""]

\* an execute that validates the message before it looks at the cooldown
BeganValidatingFirst(message) ==
    LET began == [IdleInvocation EXCEPT !.message = message, !.start = now]
        user == message.author
    IN
        IF ~CommandEnabled(config)
        THEN [began EXCEPT !.pc = "done", !.start = 0, !.result = DisabledResult(0)]
        ELSE IF user = NoAuthor
        THEN [began EXCEPT !.pc = "error_edit", !.error = NoAuthorError]
        ELSE IF ~ValidateMessage(message, CommandTrigger)
        THEN [began EXCEPT !.pc = "error_edit", !.error = InvalidMessageError]
        ELSE IF ~CheckCooldown(last_execution, user, now, config.cooldown)
        THEN [began EXCEPT !.pc = "done", !.start = 0,
                  !.result = CooldownResult(
                      CooldownRemaining(last_execution, user, now, config.cooldown), 0)]
        ELSE [began EXCEPT !.pc = "inner", !.inner_calls = 1]

\* the invocation execute(message) has become when it first suspends or returns
Began(message) ==
    LET began == [IdleInvocation EXCEPT !.message = message, !.start = now]
        user == message.author
    IN
        IF ~CommandEnabled(config)
        THEN [began EXCEPT !.pc = "done", !.start = 0, !.result = DisabledResult(0)]
        ELSE IF user = NoAuthor
        THEN [began EXCEPT !.pc = "error_edit", !.error = NoAuthorError]
        ELSE IF ~CheckCooldown(last_execution, user, now, config.cooldown)
        THEN [began EXCEPT !.pc = "done", !.start = 0,
                  !.result = CooldownResult(
                      CooldownRemaining(last_execution, user, now, config.cooldown), 0)]
        ELSE IF ~ValidateMessage(message, CommandTrigger)
        THEN [began EXCEPT !.pc = "error_edit", !.error = InvalidMessageError]
        ELSE [began EXCEPT !.pc = "inner", !.inner_calls = 1]

\* execute, from its call to its first suspension or its return
Execute(t, message) ==
    /\ inv[t].pc = "idle"
    /\ executions < MaxExecutions
    /\ executions' = executions + 1
    /\ inv' = [inv EXCEPT ![t] = Began(message)]
    /\ UNCHANGED <<config, last_execution, now, last_inner>>
    /\ UNCHANGED <<regVars, statsVars, cmdVars>>

\* no inner execution has ended yet
NoInner == [user |-> NoAuthor, start |-> 0, end |-> 0, raised |-> FALSE]

\* the inner execution of task t ends now
Ended(t, raised) ==
    [last_inner EXCEPT ![inv[t].message.author] =
        [user |-> inv[t].message.author, start |-> inv[t].start, end |-> now,
         raised |-> raised]]

\* execute_command returns: ledger update, enrichment, return
InnerReturn(t, inner) ==
    /\ inv[t].pc = "inner"
    /\ last_execution' =
          UpdateCooldown(last_execution, inv[t].message.author, now, config.cooldown)
    /\ inv' = [inv EXCEPT ![t].pc = "done", ![t].start = 0,
                          ![t].result = EnrichedResult(inner, inv[t].message.author,
                                                       now - inv[t].start)]
    /\ last_inner' = Ended(t, FALSE)
    /\ UNCHANGED <<config, now, executions>>
    /\ UNCHANGED <<regVars, statsVars, cmdVars>>

\* an execute that stamps the ledger in its exception handler too
InnerRaiseStamps(t, error) ==
    /\ inv[t].pc = "inner"
    /\ inv' = [inv EXCEPT ![t].pc = "error_edit", ![t].error = error,
                          ![t].error_time = now - inv[t].start,
                          ![t].cause = error.cause]
    /\ last_inner' = Ended(t, TRUE)
    /\ last_execution' =
          UpdateCooldown(last_execution, inv[t].message.author, now, config.cooldown)
    /\ UNCHANGED <<config, now, executions>>
    /\ UNCHANGED <<regVars, statsVars, cmdVars>>

\* execute_command raises: the handler of execute starts _handle_error
InnerRaise(t, error) ==
    /\ inv[t].pc = "inner"
    /\ inv' = [inv EXCEPT ![t].pc = "error_edit", ![t].error = error,
                          ![t].error_time = now - inv[t].start,
                          ![t].cause = error.cause]
    /\ last_inner' = Ended(t, TRUE)
    /\ UNCHANGED <<config, last_execution, now, executions>>
    /\ UNCHANGED <<regVars, statsVars, cmdVars>>

\* the message.edit of _handle_error returns or raises (then it is logged);
\* execute then builds its failure result from message.author.id
HandleErrorDone(t, edited) ==
    /\ inv[t].pc = "error_edit"
    /\ IF inv[t].message.author = NoAuthor
       THEN inv' = [inv EXCEPT ![t].pc = "raised", ![t].edits = @ + 1,
                               ![t].notice = ErrorNotice(inv[t].error),
                               ![t].shown = edited, ![t].error = NoAuthorError,
                               ![t].start = 0, ![t].error_time = 0]
       ELSE inv' = [inv EXCEPT ![t].pc = "done", ![t].edits = @ + 1,
                               ![t].notice = ErrorNotice(inv[t].error),
                               ![t].shown = edited, ![t].error = NoError,
                               ![t].start = 0, ![t].error_time = 0,
                               ![t].result = ErrorResult(inv[t].error, inv[t].message.author,
                                                         inv[t].error_time)]
    /\ UNCHANGED <<config, last_execution, now, last_inner, executions>>
    /\ UNCHANGED <<regVars, statsVars, cmdVars>>

\* the caller takes the result (or the exception) of execute
Return(t) ==
    /\ inv[t].pc \in {"done", "raised"}
    /\ inv' = [inv EXCEPT ![t] = IdleInvocation]
    /\ UNCHANGED <<config, last_execution, now, last_inner, executions>>
    /\ UNCHANGED <<regVars, statsVars, cmdVars>>

\* update_config, called with a configuration that keeps the cooldown
UpdateConfig(cfg) ==
    /\ cfg # config
    /\ cfg.cooldown = config.cooldown
    /\ config' = cfg
    /\ UNCHANGED <<last_execution, now, inv, last_inner, executions>>
    /\ UNCHANGED <<regVars, statsVars, cmdVars>>

\* time passes
Tick ==
    /\ now < StartTime + MaxTicks
    /\ now' = now + 1
    /\ UNCHANGED <<config, last_execution, inv, last_inner, executions>>
    /\ UNCHANGED <<regVars, statsVars, cmdVars>>

\* CommandConfig(): enabled, no cooldown
DefaultConfig == [enabled |-> TRUE, cooldown |-> 0]

\* the command constructed with one of the configurations cfgs
InitPipelineWith(cfgs) ==
    /\ config \in cfgs
    /\ last_execution = <<>>
    /\ now = StartTime
    /\ inv = [t \in Tasks |-> IdleInvocation]
    /\ last_inner = [u \in Users |-> NoInner]
    /\ executions = 0

InitPipeline == InitPipelineWith(Configs)

\* the steps of the pipeline when execute is called with the messages msgs
PipelineStep(msgs) ==
    \/ \E t \in Tasks, message \in msgs : Execute(t, message)
    \/ \E t \in Tasks, inner \in InnerReturns : InnerReturn(t, inner)
    \/ \E t \in Tasks, error \in InnerRaises : InnerRaise(t, error)
    \/ \E t \in Tasks, edited \in BOOLEAN : HandleErrorDone(t, edited)
    \/ \E t \in Tasks : Return(t)
    \/ \E cfg \in Configs : UpdateConfig(cfg)
    \/ Tick

NextPipeline == PipelineStep(Messages)

(***************************************************************************)
(* BotStatsService: the statistics aggregator                              *)
(*                                                                         *)
(* Every coroutine of the service is an operator that maps the service     *)
(* object s, the calling task t and the clock reading to the outcome of    *)
(* running the coroutine until it returns or suspends.  A coroutine        *)
(* suspends in one place only, the acquire of self._lock: an asyncio.Lock  *)
(* is not reentrant, so acquire suspends whenever the lock is taken, also  *)
(* when the task that asks holds it.  Averages and rates are exact         *)
(* fractions; the code computes the same quotients in floating point.      *)
(***************************************************************************)

\* float('inf'): above every duration recorded
Infinity == 1000

\* the executions record_command_execution is called with: the duration in
\* ms and the outcome
Recordings ==
    { [execution_time |-> 10, success |-> TRUE],
      [execution_time |-> 20, success |-> TRUE],
      [execution_time |-> 30, success |-> TRUE],
      [execution_time |-> 40, success |-> FALSE] }

\* the command names metrics are recorded under
MetricNames == {"test"}

\* the statuses the event listeners of the service set
Statuses == {"connected", "disconnected", "error"}

\* the aggregator and the dispatcher are called at most this many times in a
\* run of the model
MaxStatsCalls == 4

\* the clock ticks at most this many times while they are called
MaxStatsTicks == 1

RECURSIVE GCD(_, _)
GCD(a, b) == IF b = 0 THEN a ELSE GCD(b, a % b)

\* a / b for a >= 0 and b > 0, as a fraction in lowest terms
Quotient(a, b) == [num |-> a \div GCD(a, b), den |-> b \div GCD(a, b)]

\* sum(...) over the values of a dict
RECURSIVE SumOf(_)
SumOf(f) ==
    IF DOMAIN f = {} THEN 0
    ELSE LET n == CHOOSE n \in DOMAIN f : TRUE
         IN  f[n] + SumOf([m \in (DOMAIN f) \ {n} |-> f[m]])

\* Python's None as a returned value
None == [kind |-> "None"]

\* asyncio.Lock(): not locked, nobody waiting.  owner is the task that took
\* the lock (0: nobody), which asyncio itself does not record
FreeLock == [locked |-> FALSE, owner |-> 0, waiters |-> <<>>]

\* BotStatsService.__init__
NewStats(time) ==
    [start_time |-> time, commands_executed |-> 0, messages_processed |-> 0,
     last_activity |-> time, current_status |-> "disconnected",
     command_metrics |-> <<>>, lock |-> FreeLock]

\* CommandMetrics(command_name=name)
NewMetrics(name) ==
    [command_name |-> name, execution_count |-> 0, total_execution_time |-> 0,
     average_execution_time |-> Quotient(0, 1), min_execution_time |-> Infinity,
     max_execution_time |-> 0, success_count |-> 0, error_count |-> 0,
     last_executed |-> -1]

\* an update_metrics that divides as integers do (total // count)
update_metrics_floor(m, execution_time, success, time) ==
    LET count == m.execution_count + 1
        total == m.total_execution_time + execution_time
    IN  [m EXCEPT !.execution_count = count,
                  !.total_execution_time = total,
                  !.average_execution_time = [num |-> total \div count, den |-> 1],
                  !.min_execution_time = IF execution_time < @ THEN execution_time ELSE @,
                  !.max_execution_time = IF execution_time > @ THEN execution_time ELSE @,
                  !.last_executed = time,
                  !.success_count = IF success THEN @ + 1 ELSE @,
                  !.error_count = IF success THEN @ ELSE @ + 1]

\* an update_metrics that counts the successes only
update_metrics_successes_only(m, execution_time, success, time) ==
    LET count == m.execution_count + 1
        total == m.total_execution_time + execution_time
    IN  [m EXCEPT !.execution_count = count,
                  !.total_execution_time = total,
                  !.average_execution_time = Quotient(total, count),
                  !.min_execution_time = IF execution_time < @ THEN execution_time ELSE @,
                  !.max_execution_time = IF execution_time > @ THEN execution_time ELSE @,
                  !.last_executed = time,
                  !.success_count = IF success THEN @ + 1 ELSE @]

\* CommandMetrics.update_metrics
update_metrics(m, execution_time, success, time) ==
    LET count == m.execution_count + 1
        total == m.total_execution_time + execution_time
    IN  [m EXCEPT !.execution_count = count,
                  !.total_execution_time = total,
                  !.average_execution_time = Quotient(total, count),
                  !.min_execution_time = IF execution_time < @ THEN execution_time ELSE @,
                  !.max_execution_time = IF execution_time > @ THEN execution_time ELSE @,
                  !.last_executed = time,
                  !.success_count = IF success THEN @ + 1 ELSE @,
                  !.error_count = IF success THEN @ ELSE @ + 1]

\* a coroutine ran to its return: the service is left as s
Returned(s, value) == [s |-> s, done |-> TRUE, at |-> "", value |-> value]

\* a coroutine suspended in the acquire of the operation op
Suspended(s, op) == [s |-> s, done |-> FALSE, at |-> op, value |-> None]

\* the service once task t has taken its free lock
Acquired(s, t) == [s EXCEPT !.lock.locked = TRUE, !.lock.owner = t]

\* "async with self._lock: body" in the operation op, run by task t, where
\* body is the outcome of running the block from Acquired(s, t): acquire takes
\* a free lock without suspending and queues the task otherwise; the lock is
\* released when the block has run to its end
WithLock(s, t, op, body) ==
    IF s.lock.locked
    THEN Suspended([s EXCEPT !.lock.waiters = Append(@, t)], op)
    ELSE IF body.done
    THEN Returned([body.s EXCEPT !.lock.locked = FALSE, !.lock.owner = 0], body.value)
    ELSE body

update_last_activity(s, t, time) ==
    WithLock(s, t, "update_last_activity",
        LET h == Acquired(s, t) IN Returned([h EXCEPT !.last_activity = time], None))

increment_commands_executed(s, t, time) ==
    WithLock(s, t, "increment_commands_executed",
        LET h == Acquired(s, t) IN update_last_activity([h EXCEPT !.commands_executed = @ + 1], t, time))

increment_messages_processed(s, t, time) ==
    WithLock(s, t, "increment_messages_processed",
        LET h == Acquired(s, t) IN update_last_activity([h EXCEPT !.messages_processed = @ + 1], t, time))

\* get_ping is 0.0 for a client without a WebSocket; get_ping and get_uptime
\* take no lock
get_stats(s, t, time) ==
    WithLock(s, t, "get_stats",
        LET h == Acquired(s, t) IN Returned(h,
            [status |-> h.current_status, ping |-> 0, uptime |-> time - h.start_time,
             commands_executed |-> h.commands_executed,
             messages_processed |-> h.messages_processed,
             last_activity |-> h.last_activity, start_time |-> h.start_time]))

\* a record_command_execution that starts a new metrics record every time
record_command_execution_fresh(s, t, command_name, execution_time, success, time) ==
    WithLock(s, t, "record_command_execution",
        LET h == Acquired(s, t) IN
            LET metrics == h.command_metrics
                old == NewMetrics(command_name)
            IN  Returned([h EXCEPT !.command_metrics =
                            [n \in (DOMAIN metrics) \cup {command_name} |->
                                IF n = command_name
                                THEN update_metrics(old, execution_time, success, time)
                                ELSE metrics[n]]],
                         None))

record_command_execution(s, t, command_name, execution_time, success, time) ==
    WithLock(s, t, "record_command_execution",
        LET h == Acquired(s, t) IN
            LET metrics == h.command_metrics
                old == IF command_name \in DOMAIN metrics
                       THEN metrics[command_name] ELSE NewMetrics(command_name)
            IN  Returned([h EXCEPT !.command_metrics =
                            [n \in (DOMAIN metrics) \cup {command_name} |->
                                IF n = command_name
                                THEN update_metrics(old, execution_time, success, time)
                                ELSE metrics[n]]],
                         None))

\* a success rate that is 0 while nothing has been executed
calculate_success_rate_zero(metrics) ==
    LET total_success == SumOf([n \in DOMAIN metrics |-> metrics[n].success_count])
        total_executions == SumOf([n \in DOMAIN metrics |-> metrics[n].execution_count])
    IN  IF total_executions = 0 THEN Quotient(0, 1)
        ELSE Quotient(total_success * 100, total_executions)

\* _calculate_success_rate
calculate_success_rate(metrics) ==
    LET total_success == SumOf([n \in DOMAIN metrics |-> metrics[n].success_count])
        total_executions == SumOf([n \in DOMAIN metrics |-> metrics[n].execution_count])
    IN  IF total_executions = 0 THEN Quotient(100, 1)
        ELSE Quotient(total_success * 100, total_executions)

\* the dict get_performance_summary builds from the BotStats it obtained
\* (most_used_command left out)
Summary(metrics, bot) ==
    LET total_execution_time ==
            SumOf([n \in DOMAIN metrics |-> metrics[n].total_execution_time])
        total_executions == SumOf([n \in DOMAIN metrics |-> metrics[n].execution_count])
    IN  [uptime |-> bot.uptime,
         total_commands |-> bot.commands_executed,
         total_messages |-> bot.messages_processed,
         avg_execution_time |-> IF total_executions > 0
                                THEN Quotient(total_execution_time, total_executions)
                                ELSE Quotient(0, 1),
         current_ping |-> bot.ping,
         connection_status |-> bot.status,
         unique_commands_used |-> Cardinality(DOMAIN metrics),
         success_rate |-> calculate_success_rate(metrics)]

get_performance_summary(s, t, time) ==
    WithLock(s, t, "get_performance_summary",
        LET h == Acquired(s, t) IN
            LET got == get_stats(h, t, time)
            IN  IF got.done
                THEN Returned(got.s, Summary(got.s.command_metrics, got.value))
                ELSE got)

export_metrics(s, t, time) ==
    WithLock(s, t, "export_metrics",
        LET h == Acquired(s, t) IN
            LET got == get_stats(h, t, time)
                summary == get_performance_summary(got.s, t, time)
            IN  IF ~got.done THEN got
                ELSE IF ~summary.done THEN summary
                ELSE Returned(summary.s,
                        [timestamp |-> time, bot_stats |-> got.value,
                         command_metrics |-> got.s.command_metrics,
                         performance_summary |-> summary.value]))

reset_stats(s, t) ==
    WithLock(s, t, "reset_stats",
        LET h == Acquired(s, t) IN Returned([h EXCEPT !.commands_executed = 0,
                                      !.messages_processed = 0,
                                      !.command_metrics = <<>>], None))

\* _update_status
update_status(s, t, status) ==
    WithLock(s, t, "_update_status",
        LET h == Acquired(s, t) IN Returned([h EXCEPT !.current_status = status], None))

\* no message
NoMessage == [author |-> NoAuthor, content |-> <<>>]

\* a task that has called nothing yet.  free: the lock was free when the call
\* was made; executed, recorded: the dispatcher has invoked execute, has
\* reported the execution to the aggregator
IdleCall ==
    [op |-> "", state |-> "idle", at |-> "", free |-> TRUE, value |-> None,
     message |-> NoMessage, command |-> NoneCommand, start |-> 0,
     executed |-> FALSE, recorded |-> FALSE]

\* the history once an execution of command_name that took execution_time
\* has been recorded
Logged(log, command_name, execution_time, success) ==
    [n \in (DOMAIN log) \cup {command_name} |->
        IF n # command_name THEN log[n]
        ELSE (IF n \in DOMAIN log THEN log[n] ELSE EmptyBag)
             (+) SetToBag({[execution_time |-> execution_time, success |-> success]})]

\* task t calls the operation op of the service; r is the outcome of running
\* it until it returns or suspends, log the history once it has returned.  A
\* suspended task calls nothing
Invoke(t, op, r, log) ==
    /\ calls[t].state # "suspended"
    /\ stats_calls < MaxStatsCalls
    /\ stats_calls' = stats_calls + 1
    /\ stats' = r.s
    /\ calls' = [calls EXCEPT ![t] =
                    [IdleCall EXCEPT !.op = op,
                                     !.state = IF r.done THEN "returned" ELSE "suspended",
                                     !.at = r.at,
                                     !.free = ~stats.lock.locked,
                                     !.value = r.value]]
    /\ history' = IF r.done THEN log ELSE history
    /\ UNCHANGED <<regVars, pipeVars, cmdVars>>

IncrementCommandsExecuted(t) ==
    Invoke(t, "increment_commands_executed", increment_commands_executed(stats, t, now),
           history)

IncrementMessagesProcessed(t) ==
    Invoke(t, "increment_messages_processed", increment_messages_processed(stats, t, now),
           history)

UpdateLastActivity(t) ==
    Invoke(t, "update_last_activity", update_last_activity(stats, t, now), history)

GetStats(t) == Invoke(t, "get_stats", get_stats(stats, t, now), history)

RecordCommandExecution(t, command_name, execution_time, success) ==
    Invoke(t, "record_command_execution",
           record_command_execution(stats, t, command_name, execution_time, success, now),
           Logged(history, command_name, execution_time, success))

GetPerformanceSummary(t) ==
    Invoke(t, "get_performance_summary", get_performance_summary(stats, t, now),
           history)

ExportMetrics(t) ==
    Invoke(t, "export_metrics", export_metrics(stats, t, now), history)

ResetStats(t) == Invoke(t, "reset_stats", reset_stats(stats, t), <<>>)

UpdateStatus(t, status) ==
    Invoke(t, "_update_status", update_status(stats, t, status), history)

(***************************************************************************)
(* DiscordService: the dispatcher                                          *)
(***************************************************************************)

\* the messages the gateway delivers: those of the account, and a command of
\* another user and of no author
Inbound ==
    {m \in [author : Users \cup {NoAuthor}, content : Contents] :
        m.author = Self \/ StartsWith(Strip(m.content), CommandTrigger)}

\* a _find_matching_command that returns the last match of its scan
FindMatchingCommandLast(cmds, content) ==
    LET matching == {i \in 1..Len(cmds) :
                        StartsWith(content, cmds[i].trigger) /\ cmds[i].enabled}
    IN  IF matching = {} THEN NoneCommand
        ELSE cmds[CHOOSE i \in matching : \A j \in matching : i >= j]

\* _find_matching_command over get_all_commands(): the first command, in the
\* order of the trigger mapping, that is enabled and whose trigger content
\* starts with
FindMatchingCommand(cmds, content) ==
    LET matching == {i \in 1..Len(cmds) :
                        StartsWith(content, cmds[i].trigger) /\ cmds[i].enabled}
    IN  IF matching = {} THEN NoneCommand
        ELSE cmds[CHOOSE i \in matching : \A j \in matching : i <= j]

\* _handle_message, run by task t.  Delivered a message, it runs up to the
\* first place it suspends: in increment_messages_processed, or in the
\* execute of the matching command.  Once that execute has returned it runs
\* on, through increment_commands_executed and record_command_execution
HandleMessage(t) ==
    IF calls[t].op = "_handle_message" /\ calls[t].at = "execute"
    THEN
        /\ inv[t].pc = "done"
        /\ LET counted == increment_commands_executed(stats, t, now)
               recorded == record_command_execution(counted.s, t, calls[t].command.name,
                               now - calls[t].start, inv[t].result.success, now)
               r == IF counted.done THEN recorded ELSE counted
           IN  /\ stats' = r.s
               /\ calls' = [calls EXCEPT
                               ![t].state = IF r.done THEN "returned" ELSE "suspended",
                               ![t].at = r.at,
                               ![t].recorded = r.done]
               /\ history' = IF r.done
                               THEN Logged(history, calls[t].command.name,
                                           now - calls[t].start, inv[t].result.success)
                               ELSE history
        /\ inv' = [inv EXCEPT ![t] = IdleInvocation]
        /\ UNCHANGED <<config, last_execution, now, last_inner, executions, stats_calls>>
        /\ UNCHANGED <<regVars, cmdVars>>
    ELSE \E message \in Inbound :
        /\ calls[t].state # "suspended"
        /\ inv[t].pc = "idle"
        /\ stats_calls < MaxStatsCalls
        /\ stats_calls' = stats_calls + 1
        /\ UNCHANGED history
        /\ LET counted == increment_messages_processed(stats, t, now)
               content == Strip(message.content)
               command == FindMatchingCommand(commands, content)
               call == [IdleCall EXCEPT !.op = "_handle_message", !.message = message,
                                        !.free = ~stats.lock.locked]
           IN  /\ stats' = counted.s
               /\ IF ~counted.done
                  THEN /\ calls' = [calls EXCEPT ![t] =
                                      [call EXCEPT !.state = "suspended", !.at = counted.at]]
                       /\ UNCHANGED <<inv, executions>>
                  ELSE IF message.author # Self \/ content = <<>> \/ command = NoneCommand
                  THEN /\ calls' = [calls EXCEPT ![t] = [call EXCEPT !.state = "returned"]]
                       /\ UNCHANGED <<inv, executions>>
                  ELSE /\ calls' = [calls EXCEPT ![t] =
                                      [call EXCEPT !.state = "suspended", !.at = "execute",
                                                   !.command = command, !.start = now,
                                                   !.executed = TRUE]]
                       /\ inv' = [inv EXCEPT ![t] = Began(message)]
                       /\ executions' = executions + 1
        /\ UNCHANGED <<config, last_execution, now, last_inner>>
        /\ UNCHANGED <<regVars, cmdVars>>

\* time passes
StatsTick == now < StartTime + MaxStatsTicks /\ Tick

\* the events of the gateway both services register a handler for
GatewayEvents == {"on_ready", "on_message", "on_error", "on_disconnect", "on_resumed"}

\* those whose BotStatsService handler sets the status
StatusEvents == GatewayEvents \ {"on_message"}

\* client.event(coro) of discord.py: setattr(client, coro.__name__, coro), so
\* the handler of that name is replaced
ClientEvent(handlers, event, owner) ==
    [e \in (DOMAIN handlers) \cup {event} |-> IF e = event THEN owner ELSE handlers[e]]

\* BotStatsService._setup_event_listeners on a client whose handlers are handlers
SetupEventListeners(handlers) ==
    LET h1 == ClientEvent(handlers, "on_ready", "BotStatsService")
        h2 == ClientEvent(h1, "on_disconnect", "BotStatsService")
        h3 == ClientEvent(h2, "on_resumed", "BotStatsService")
        h4 == ClientEvent(h3, "on_error", "BotStatsService")
    IN  ClientEvent(h4, "on_message", "BotStatsService")

\* DiscordService._setup_event_handlers
SetupEventHandlers(handlers) ==
    LET h1 == ClientEvent(handlers, "on_ready", "DiscordService")
        h2 == ClientEvent(h1, "on_message", "DiscordService")
        h3 == ClientEvent(h2, "on_error", "DiscordService")
        h4 == ClientEvent(h3, "on_disconnect", "DiscordService")
    IN  ClientEvent(h4, "on_resumed", "DiscordService")

\* the handlers of the client once DiscordService.__init__ has run: the
\* aggregator is constructed on the new client, then the service registers
\* its own handlers
ClientHandlers == SetupEventHandlers(SetupEventListeners(<<>>))

\* the status the handler of BotStatsService passes to _update_status
StatusOf(event) ==
    CASE event \in {"on_ready", "on_resumed"} -> "connected"
      [] event = "on_disconnect" -> "disconnected"
      [] event = "on_error" -> "error"

\* the handler of a status event that BotStatsService registers
stats_listener(s, t, event, time) ==
    LET updated == update_status(s, t, StatusOf(event))
    IN  IF updated.done THEN update_last_activity(updated.s, t, time) ELSE updated

\* the handler of a status event that DiscordService registers: it logs
service_handler(s, t, event) == Returned(s, None)

\* the gateway delivers a status event: discord.py runs, in task t, the
\* handler found under the event's name.  (on_message is delivered by
\* HandleMessage, the handler DiscordService registers for it.)
GatewayEvent(t, event) ==
    Invoke(t, event,
           IF ClientHandlers[event] = "BotStatsService"
           THEN stats_listener(stats, t, event, now)
           ELSE service_handler(stats, t, event),
           history)

\* the client runs: events and messages arrive, the status is read
NextGateway ==
    \/ \E t \in Tasks, event \in StatusEvents : GatewayEvent(t, event)
    \/ \E t \in Tasks : HandleMessage(t)
    \/ \E t \in Tasks : GetStats(t)
    \/ StatsTick

\* the commands the dispatcher looks through: enabled ones and disabled ones
AnyCommands ==
    [name : Names, trigger : Triggers, description : {"d"}, has_execute : {TRUE},
     enabled : BOOLEAN, copy : {1}]

\* the trimmed contents _find_matching_command is called with
MatchContents == {<<".", "p">>, <<".", "p", "h", "x">>, <<"x">>}

\* task t calls _find_matching_command(content), which takes the lock of the
\* registry for get_all_commands and returns without suspending
FindMatching(t, content) ==
    /\ calls' = [calls EXCEPT ![t] =
                    [IdleCall EXCEPT !.op = "_find_matching_command",
                                     !.state = "returned",
                                     !.message = [author |-> Self, content |-> content],
                                     !.command = FindMatchingCommand(commands, content)]]
    /\ UNCHANGED <<stats, stats_calls, history>>
    /\ UNCHANGED <<regVars, pipeVars, cmdVars>>

\* the registry changes while the dispatcher looks commands up
NextMatching ==
    \/ \E command \in AnyCommands : Register(command)
    \/ \E trigger \in Triggers : Unregister(trigger)
    \/ \E t \in Tasks, content \in MatchContents : FindMatching(t, content)

InitStats ==
    /\ stats = NewStats(StartTime)
    /\ calls = [t \in Tasks |-> IdleCall]
    /\ stats_calls = 0
    /\ history = <<>>

\* the steps of the aggregator and the dispatcher
NextStats ==
    \/ \E t \in Tasks : IncrementCommandsExecuted(t)
    \/ \E t \in Tasks : IncrementMessagesProcessed(t)
    \/ \E t \in Tasks : UpdateLastActivity(t)
    \/ \E t \in Tasks : GetStats(t)
    \/ \E t \in Tasks, command_name \in MetricNames, recording \in Recordings :
            RecordCommandExecution(t, command_name, recording.execution_time,
                                   recording.success)
    \/ \E t \in Tasks : GetPerformanceSummary(t)
    \/ \E t \in Tasks : ExportMetrics(t)
    \/ \E t \in Tasks : ResetStats(t)
    \/ \E t \in Tasks, status \in Statuses : UpdateStatus(t, status)
    \/ \E t \in Tasks : HandleMessage(t)
    \/ StatsTick

(***************************************************************************)
(* The locks.  asyncio runs a block under 'async with lock' without a      *)
(* suspension when the lock is free, and suspends the task until the lock  *)
(* is released otherwise.  The actions below split every such block into   *)
(* its acquire, its body and its release and interleave the tasks between  *)
(* them: every schedule of asyncio is among these behaviours.              *)
(***************************************************************************)

\* the messages execute is called with, of both users
LockMessages == [author : Users, content : {<<" ", ".", "p", " ">>, <<"x">>}]

\* execute from its call to 'async with self._execution_lock' in
\* _check_cooldown (of a command with a cooldown), or to its return when the
\* command is disabled
ExecuteToLock(t, message) ==
    /\ inv[t].pc = "idle"
    /\ executions < MaxExecutions
    /\ executions' = executions + 1
    /\ inv' = [inv EXCEPT ![t] =
                  IF CommandEnabled(config) /\ config.cooldown # 0
                  THEN [IdleInvocation EXCEPT !.pc = "check_cooldown",
                                              !.message = message, !.start = now]
                  ELSE Began(message)]
    /\ UNCHANGED <<config, last_execution, now, last_inner>>
    /\ UNCHANGED <<regVars, statsVars, cmdVars>>

\* 'async with self._execution_lock' is entered: the lock is free
AcquireExecutionLock(t) ==
    /\ inv[t].pc \in {"check_cooldown", "get_remaining", "update_cooldown"}
    /\ execution_lock = {}
    /\ execution_lock' = {t}
    /\ UNCHANGED <<session, service, registry_lock, reg_tasks>>
    /\ UNCHANGED <<regVars, pipeVars, statsVars>>

\* execute from the body of a block under the lock to its next wait or its
\* return, when the invocation has become next and the ledger has become
\* ledger there; holders are the tasks the block leaves inside the lock
LeaveExecutionLock(t, next, ledger, holders) ==
    /\ t \in execution_lock
    /\ execution_lock' = holders
    /\ inv' = [inv EXCEPT ![t] = next]
    /\ last_execution' = ledger
    /\ UNCHANGED <<config, now, last_inner, executions>>
    /\ UNCHANGED <<session, service, registry_lock, reg_tasks>>
    /\ UNCHANGED <<regVars, statsVars>>

\* a _check_cooldown whose lock is still held when it returned True
ReleaseExecutionLockLate(t) ==
    LET user == inv[t].message.author
        this == inv[t]
    IN
    \/ /\ this.pc = "check_cooldown"
       /\ IF ~CheckCooldown(last_execution, user, now, config.cooldown)
          THEN LeaveExecutionLock(t, [this EXCEPT !.pc = "get_remaining"],
                                  last_execution, execution_lock \ {t})
          ELSE IF ~ValidateMessage(this.message, CommandTrigger)
          THEN LeaveExecutionLock(t, [this EXCEPT !.pc = "error_edit",
                                                  !.error = InvalidMessageError],
                                  last_execution, execution_lock \ {t})
          ELSE LeaveExecutionLock(t, [this EXCEPT !.pc = "inner", !.inner_calls = 1],
                                  last_execution, execution_lock)
    \/ /\ this.pc = "get_remaining"
       /\ LeaveExecutionLock(t,
              [this EXCEPT !.pc = "done", !.start = 0,
                           !.result = CooldownResult(
                               CooldownRemaining(last_execution, user, now,
                                                 config.cooldown), 0)],
              last_execution, execution_lock \ {t})
    \/ /\ this.pc = "update_cooldown"
       /\ LeaveExecutionLock(t,
              [this EXCEPT !.pc = "done", !.start = 0,
                           !.result = EnrichedResult(this.result, user, now - this.start)],
              UpdateCooldown(last_execution, user, now, config.cooldown),
              execution_lock \ {t})

\* the blocks under the lock: _check_cooldown (then the validation and the
\* call of execute_command), _get_cooldown_remaining (then the cooldown
\* return) and _update_cooldown (then the enrichment and the return)
ReleaseExecutionLock(t) ==
    LET user == inv[t].message.author
        this == inv[t]
    IN
    \/ /\ this.pc = "check_cooldown"
       /\ IF ~CheckCooldown(last_execution, user, now, config.cooldown)
          THEN LeaveExecutionLock(t, [this EXCEPT !.pc = "get_remaining"],
                                  last_execution, execution_lock \ {t})
          ELSE IF ~ValidateMessage(this.message, CommandTrigger)
          THEN LeaveExecutionLock(t, [this EXCEPT !.pc = "error_edit",
                                                  !.error = InvalidMessageError],
                                  last_execution, execution_lock \ {t})
          ELSE LeaveExecutionLock(t, [this EXCEPT !.pc = "inner", !.inner_calls = 1],
                                  last_execution, execution_lock \ {t})
    \/ /\ this.pc = "get_remaining"
       /\ LeaveExecutionLock(t,
              [this EXCEPT !.pc = "done", !.start = 0,
                           !.result = CooldownResult(
                               CooldownRemaining(last_execution, user, now,
                                                 config.cooldown), 0)],
              last_execution, execution_lock \ {t})
    \/ /\ this.pc = "update_cooldown"
       /\ LeaveExecutionLock(t,
              [this EXCEPT !.pc = "done", !.start = 0,
                           !.result = EnrichedResult(this.result, user, now - this.start)],
              UpdateCooldown(last_execution, user, now, config.cooldown),
              execution_lock \ {t})

\* execute_command returns inner: execute goes on to _update_cooldown
InnerDone(t, inner) ==
    /\ inv[t].pc = "inner"
    /\ inv' = [inv EXCEPT ![t].pc = "update_cooldown",
                          ![t].result = [NoResult EXCEPT
                                            !.success = inner.success,
                                            !.error = inner.error,
                                            !.response_time = inner.response_time]]
    /\ last_inner' = Ended(t, FALSE)
    /\ UNCHANGED <<config, last_execution, now, executions>>
    /\ UNCHANGED <<regVars, statsVars, cmdVars>>

\* the execution of task t resolves
Resolves(t) ==
    \/ \E inner \in {r \in InnerReturns : r.response_time = -1} : InnerDone(t, inner)
    \/ InnerRaise(t, PingFailure("Missing Permissions"))

\* what asyncio runs of task t without anything outside the pipeline
Runs(t) ==
    \/ AcquireExecutionLock(t)
    \/ ReleaseExecutionLock(t)
    \/ \E edited \in BOOLEAN : HandleErrorDone(t, edited)

NextExecutionLock ==
    \/ \E t \in Tasks, message \in LockMessages : ExecuteToLock(t, message)
    \/ \E t \in Tasks : Runs(t)
    \/ \E t \in Tasks : Resolves(t)
    \/ \E t \in Tasks : Return(t)
    \/ (now = StartTime /\ Tick)

\* the registry calls of the tasks: the mutating and the reading methods
RegistryCalls ==
    {[op |-> "register", arg |-> command] :
        command \in {c \in ValidCommands : c.copy = 1} \cup {NoneCommand}}
    \cup {[op |-> op, arg |-> trigger] :
            op \in {"unregister", "get_command"}, trigger \in Triggers \cup {<<>>}}
    \cup {[op |-> "get_command_by_name", arg |-> name] : name \in Names \cup {""}}
    \cup {[op |-> op, arg |-> <<>>] : op \in {"clear", "get_all_commands", "get_stats"}}

\* a task that is in no registry call; seen is what its last read returned
\* and torn whether another task was between its two writes at that read
IdleRegistryTask ==
    [pc |-> "idle", op |-> "", arg |-> <<>>, removed |-> NoneCommand,
     seen |-> <<>>, torn |-> FALSE]

\* a registry method from its call to 'async with self._lock', or to its
\* return: register raises for an invalid command, unregister, get_command
\* and get_command_by_name return for a falsy argument
CallRegistry(t, call) ==
    /\ reg_tasks[t].pc = "idle"
    /\ reg_calls < MaxRegCalls
    /\ reg_calls' = reg_calls + 1
    /\ reg_tasks' = [reg_tasks EXCEPT ![t] =
          [IdleRegistryTask EXCEPT
              !.op = call.op, !.arg = call.arg,
              !.pc = IF \/ /\ call.op = "register"
                           /\ \/ call.arg = NoneCommand
                              \/ ValidateCommand(call.arg) # ""
                        \/ /\ call.op \in {"unregister", "get_command"}
                           /\ call.arg = <<>>
                        \/ /\ call.op = "get_command_by_name"
                           /\ call.arg = ""
                     THEN "idle" ELSE "waiting"]]
    /\ UNCHANGED <<commands, command_names, reg_stats, reg_last>>
    /\ UNCHANGED <<session, service, execution_lock, registry_lock>>
    /\ UNCHANGED <<pipeVars, statsVars>>

\* a lock any task may enter whoever is inside
AcquireRegistryLockShared(t) ==
    /\ reg_tasks[t].pc = "waiting"
    /\ registry_lock' = registry_lock \cup {t}
    /\ reg_tasks' = [reg_tasks EXCEPT ![t].pc = "locked"]
    /\ UNCHANGED <<session, service, execution_lock>>
    /\ UNCHANGED <<regVars, pipeVars, statsVars>>

\* 'async with self._lock' is entered: the lock is free
AcquireRegistryLock(t) ==
    /\ reg_tasks[t].pc = "waiting"
    /\ registry_lock = {}
    /\ registry_lock' = registry_lock \cup {t}
    /\ reg_tasks' = [reg_tasks EXCEPT ![t].pc = "locked"]
    /\ UNCHANGED <<session, service, execution_lock>>
    /\ UNCHANGED <<regVars, pipeVars, statsVars>>

\* the block under the lock up to its first write of a mapping: the reads of
\* the reading methods, the checks of register and unregister, and the write
\* of self._commands
RegistryBlock(t) ==
    LET this == reg_tasks[t]
        torn == \E u \in Tasks \ {t} : reg_tasks[u].pc = "half"
    IN
    /\ this.pc = "locked"
    /\ CASE this.op = "register" ->
              IF DuplicateName(command_names, this.arg)
              THEN /\ reg_stats' = [reg_stats EXCEPT !.registration_errors = @ + 1]
                   /\ reg_tasks' = [reg_tasks EXCEPT ![t].pc = "leaving"]
                   /\ UNCHANGED commands
              ELSE /\ commands' = StoreByTrigger(commands, this.arg)
                   /\ reg_tasks' = [reg_tasks EXCEPT ![t].pc = "half"]
                   /\ UNCHANGED reg_stats
         [] this.op = "unregister" ->
              /\ UNCHANGED reg_stats
              /\ IF HasTrigger(commands, this.arg)
                 THEN /\ commands' = RemoveAt(commands, IndexOfTrigger(commands, this.arg))
                      /\ reg_tasks' = [reg_tasks EXCEPT
                                          ![t].pc = "half",
                                          ![t].removed = CommandAt(commands, this.arg)]
                 ELSE /\ reg_tasks' = [reg_tasks EXCEPT ![t].pc = "leaving"]
                      /\ UNCHANGED commands
         [] this.op = "clear" ->
              /\ commands' = <<>>
              /\ reg_tasks' = [reg_tasks EXCEPT ![t].pc = "half"]
              /\ UNCHANGED reg_stats
         [] this.op = "get_command" ->
              /\ reg_tasks' = [reg_tasks EXCEPT ![t].pc = "leaving", ![t].torn = torn,
                                  ![t].seen = <<CommandAt(commands, this.arg)>>]
              /\ UNCHANGED <<commands, reg_stats>>
         [] this.op = "get_command_by_name" ->
              /\ reg_tasks' = [reg_tasks EXCEPT ![t].pc = "leaving", ![t].torn = torn,
                                  ![t].seen = IF this.arg \in DOMAIN command_names
                                              THEN <<command_names[this.arg]>>
                                              ELSE <<NoneCommand>>]
              /\ UNCHANGED <<commands, reg_stats>>
         [] this.op \in {"get_all_commands", "get_stats"} ->
              /\ reg_tasks' = [reg_tasks EXCEPT ![t].pc = "leaving", ![t].torn = torn,
                                  ![t].seen = commands]
              /\ UNCHANGED <<commands, reg_stats>>
    /\ UNCHANGED <<command_names, reg_calls, reg_last>>
    /\ UNCHANGED <<session, service, execution_lock, registry_lock>>
    /\ UNCHANGED <<pipeVars, statsVars>>

\* the write of self._command_names that follows the write of self._commands,
\* and the counter of the operation
RegistrySecondWrite(t) ==
    LET this == reg_tasks[t] IN
    /\ this.pc = "half"
    /\ reg_tasks' = [reg_tasks EXCEPT ![t].pc = "leaving"]
    /\ CASE this.op = "register" ->
              /\ command_names' = StoreByName(command_names, this.arg)
              /\ reg_stats' = [reg_stats EXCEPT !.total_registered = @ + 1]
         [] this.op = "unregister" ->
              /\ command_names' = UnregisteredNames(command_names, this.removed)
              /\ reg_stats' = [reg_stats EXCEPT !.total_unregistered = @ + 1]
         [] this.op = "clear" ->
              /\ command_names' = <<>>
              /\ UNCHANGED reg_stats
    /\ UNCHANGED <<commands, reg_calls, reg_last>>
    /\ UNCHANGED <<session, service, execution_lock, registry_lock>>
    /\ UNCHANGED <<pipeVars, statsVars>>

\* the block ends: the lock is released and the method returns or raises
ReleaseRegistryLock(t) ==
    /\ reg_tasks[t].pc = "leaving"
    /\ registry_lock' = registry_lock \ {t}
    /\ reg_tasks' = [reg_tasks EXCEPT ![t].pc = "idle"]
    /\ UNCHANGED <<session, service, execution_lock>>
    /\ UNCHANGED <<regVars, pipeVars, statsVars>>

NextRegistryLock ==
    \/ \E t \in Tasks, call \in RegistryCalls : CallRegistry(t, call)
    \/ \E t \in Tasks : AcquireRegistryLock(t)
    \/ \E t \in Tasks : RegistryBlock(t)
    \/ \E t \in Tasks : RegistrySecondWrite(t)
    \/ \E t \in Tasks : ReleaseRegistryLock(t)

(***************************************************************************)
(* DiscordService.start and stop, DiscordSelfBot.stop.  start() runs in    *)
(* the task of main and suspends in login and in asyncio.wait; stop() runs *)
(* in the task the signal handler creates and suspends in client.close().  *)
(* connection is the task of client.connect().  A closed client stays      *)
(* closed: discord.py reopens it in Client.clear() only, which nothing     *)
(* here calls.                                                             *)
(***************************************************************************)

\* start() is called at most this many times, stop() at most this many
MaxStarts == 2

MaxStops == 2

\* the task that runs stop()
StopTask == 2

\* DiscordService.__init__ and DiscordSelfBot.__init__: not running, both
\* events clear, the client open.  starts and stops count the calls;
\* stops_at_start is the number of stop() calls made before the last start(),
\* stop_at_start where stop() stood then
NewService ==
    [is_running |-> FALSE, shutdown_event |-> FALSE, closed |-> FALSE,
     connection |-> "none", start |-> "idle", stop |-> "idle",
     app_stop |-> "idle", app_shutdown_event |-> FALSE, enable_metrics |-> TRUE,
     starts |-> 0, stops |-> 0, stops_at_start |-> 0, stop_at_start |-> "idle"]

\* what the lifecycle leaves alone
serviceFrame == <<regVars, pipeVars, session, execution_lock, registry_lock, reg_tasks,
                  calls, stats_calls, history>>

\* DiscordSelfBot.is_running
bot_is_running(svc) == svc.is_running /\ ~svc.app_shutdown_event

\* start() up to its first suspension: it returns at once when the service
\* is running, and awaits _validate_token and client.login otherwise
StartCall ==
    /\ service.start \in {"idle", "refused", "returned", "raised"}
    /\ service.starts < MaxStarts
    /\ service' = [service EXCEPT !.starts = @ + 1,
                                  !.stops_at_start = service.stops,
                                  !.stop_at_start = service.stop,
                                  !.start = IF service.is_running THEN "refused" ELSE "login"]
    /\ UNCHANGED <<serviceFrame, stats>>

\* the token check and the login are over.  Passed, start() sets _is_running,
\* creates the two tasks and suspends in asyncio.wait; failed, its handler
\* clears _is_running and raises again
LoginDone(ok) ==
    /\ service.start = "login"
    /\ service' = IF ok
                  THEN [service EXCEPT !.is_running = TRUE, !.connection = "up",
                                       !.start = "waiting"]
                  ELSE [service EXCEPT !.is_running = FALSE, !.start = "raised"]
    /\ UNCHANGED <<serviceFrame, stats>>

\* client.connect() ends on its own: it returns or it raises
ConnectionEnds(how) ==
    /\ service.connection = "up"
    /\ service' = [service EXCEPT !.connection = how]
    /\ UNCHANGED <<serviceFrame, stats>>

\* asyncio.wait returns: the event is set or the connection task is done.
\* start() cancels the pending task; it raises ConnectionError through its
\* handler when the connection task raised, and returns otherwise
WaitDone ==
    /\ service.start = "waiting"
    /\ service.shutdown_event \/ service.connection # "up"
    /\ service' =
          IF service.connection = "raised"
          THEN [service EXCEPT !.is_running = FALSE, !.start = "raised"]
          ELSE [service EXCEPT !.start = "returned",
                               !.connection = IF @ = "up" THEN "cancelled" ELSE @]
    /\ UNCHANGED <<serviceFrame, stats>>

\* the rest of DiscordSelfBot.stop once discord_service.stop() has returned:
\* _cleanup awaits export_metrics when metrics are enabled, and stop()
\* returns when _cleanup has
Cleanup(svc) ==
    IF svc.app_stop # "service_stop"
    THEN service' = svc /\ UNCHANGED stats
    ELSE IF ~svc.enable_metrics
    THEN service' = [svc EXCEPT !.app_stop = "returned"] /\ UNCHANGED stats
    ELSE LET exported == export_metrics(stats, StopTask, now)
         IN  /\ stats' = exported.s
             /\ service' = [svc EXCEPT !.app_stop = IF exported.done THEN "returned"
                                                    ELSE "cleanup"]

\* DiscordService.stop() up to its first suspension, called by svc.  It
\* returns at once when the service is not running; otherwise it sets the
\* event and awaits client.close(), or clears _is_running when the client is
\* closed already
ServiceStop(svc) ==
    LET called == [svc EXCEPT !.stops = @ + 1]
    IN  IF ~svc.is_running
        THEN Cleanup([called EXCEPT !.stop = "refused"])
        ELSE IF ~svc.closed
        THEN service' = [called EXCEPT !.shutdown_event = TRUE, !.stop = "closing"]
             /\ UNCHANGED stats
        ELSE Cleanup([called EXCEPT !.shutdown_event = TRUE, !.is_running = FALSE,
                                    !.stop = "returned"])

\* a call of DiscordService.stop()
StopCall ==
    /\ service.stop \in {"idle", "refused", "returned"}
    /\ service.stops < MaxStops
    /\ ServiceStop(service)
    /\ UNCHANGED serviceFrame

\* DiscordSelfBot.stop(), with the setting enable_metrics: it sets its own
\* event and calls DiscordService.stop()
AppStop(enable_metrics) ==
    /\ service.app_stop = "idle"
    /\ service.stop \in {"idle", "refused", "returned"}
    /\ service.stops < MaxStops
    /\ ServiceStop([service EXCEPT !.app_stop = "service_stop",
                                   !.app_shutdown_event = TRUE,
                                   !.enable_metrics = enable_metrics])
    /\ UNCHANGED serviceFrame

\* client.close() is over: the connection task returns, stop() clears
\* _is_running and returns
StopDone ==
    /\ service.stop = "closing"
    /\ Cleanup([service EXCEPT !.closed = TRUE,
                               !.connection = IF @ = "up" THEN "returned" ELSE @,
                               !.is_running = FALSE,
                               !.stop = "returned"])
    /\ UNCHANGED serviceFrame

NextLifecycle ==
    \/ StartCall
    \/ \E ok \in BOOLEAN : LoginDone(ok)
    \/ \E how \in {"returned", "raised"} : ConnectionEnds(how)
    \/ WaitDone
    \/ StopCall
    \/ \E enable_metrics \in BOOLEAN : AppStop(enable_metrics)
    \/ StopDone

\* no task is inside a lock
InitLocks ==
    /\ execution_lock = {}
    /\ registry_lock = {}
    /\ reg_tasks = [t \in Tasks |-> IdleRegistryTask]
    /\ service = NewService

(***************************************************************************)
(* PingCommand and HelpCommand: the two commands of the bot.  The session  *)
(* runs them through the pipeline of BaseCommand one execution after the   *)
(* other, each from its call to its return, for one user.  Response texts  *)
(* are records of their parts.                                             *)
(***************************************************************************)

\* CommandConfig(cooldown=...) of the two commands, in ms
PingCooldown == 1000

HelpCooldown == 2000

\* the session makes at most this many executions
MaxRuns == 3

\* the clock of the session advances at most this many times
MaxSessionTicks == 2

PingTrigger == <<".", "p", "i", "n", "g">>
HelpTrigger == <<".", "h", "e", "l", "p">>

\* command.name.lower(), character by character
NameChars == [ping |-> <<"p", "i", "n", "g">>, help |-> <<"h", "e", "l", "p">>]

\* the two commands as the registry sees them
ThePing ==
    [name |-> "ping", trigger |-> PingTrigger, description |-> "d",
     has_execute |-> TRUE, enabled |-> TRUE, copy |-> 1]

TheHelp ==
    [name |-> "help", trigger |-> HelpTrigger, description |-> "d",
     has_execute |-> TRUE, enabled |-> TRUE, copy |-> 1]

PingConfig == [enabled |-> TRUE, cooldown |-> PingCooldown]

\* a help command constructed without a cooldown
HelpConfigNoCooldown == [enabled |-> TRUE, cooldown |-> 0]

HelpConfig == [enabled |-> TRUE, cooldown |-> HelpCooldown]

\* client.ws: None, an object without a latency, or an object whose latency
\* is ms / 1000 seconds
WsStates ==
    {[kind |-> "none", ms |-> 0], [kind |-> "no_latency", ms |-> 0]}
        \cup {[kind |-> "connected", ms |-> ms] : ms \in {-1, 50, 250}}

\* what surrounds an execution: the client's socket, whether the root logger
\* lets DEBUG records through, whether message.edit works, and how long the
\* edit of the response takes
Envs == [ws : WsStates, debug : BOOLEAN, edit_ok : BOOLEAN, took : {0, PingCooldown}]

\* the latencies _assess_connection_quality is called with, in ms
Latencies == {25, 49, 50, 75, 100, 150, 200, 250}

\* the executions of the session: '.ping' and '.help' on the ping command,
\* '.help' and '.help ping' on the help command
SessionMessages ==
    {[name |-> "ping", content |-> PingTrigger],
     [name |-> "ping", content |-> HelpTrigger],
     [name |-> "help", content |-> HelpTrigger],
     [name |-> "help", content |-> HelpTrigger \o <<" ">> \o NameChars.ping]}

\* the surroundings of a session: a client that is connected or not
SessionEnvs == {env \in Envs : env.ws \in {[kind |-> "none", ms |-> 0],
                                           [kind |-> "connected", ms |-> 50]}}

\* str(error) of a failed message.edit and of the TypeError that
\* logging.Logger.debug raises for keyword arguments once DEBUG is enabled
EditErrorText == "Missing Permissions"

LogErrorText == "Logger._log() got an unexpected keyword argument"

\* CommandError(message, error_code=code)
CommandErrorOf(message, code) ==
    [type |-> "CommandError", message |-> message, code |-> code, cause |-> ""]

\* the CommandError HelpCommand.execute_command raises from any exception of
\* its inner logic
HelpFailure(low) ==
    [type |-> "CommandError", message |-> "Failed to generate help: " \o low,
     code |-> "HELP_GENERATION_FAILED", cause |-> low]

\* the outcome of a function that raises error / returns value
Raises(error) == [raised |-> TRUE, error |-> error, value |-> None]

Gives(value) == [raised |-> FALSE, error |-> NoError, value |-> value]

\* PingCommand._get_websocket_latency
get_websocket_latency(ws) ==
    IF ws.kind = "none"
    THEN Raises(CommandErrorOf("WebSocket connection not available", "NO_WEBSOCKET"))
    ELSE IF ws.kind = "no_latency"
    THEN Raises(CommandErrorOf("WebSocket latency not available", "LATENCY_UNAVAILABLE"))
    ELSE IF ws.ms < 0
    THEN Raises(CommandErrorOf("Invalid latency value received", "INVALID_LATENCY"))
    ELSE Gives(ws.ms)

\* PingCommand._assess_connection_quality
assess_connection_quality(latency) ==
    IF latency < 50 THEN "excellent"
    ELSE IF latency < 100 THEN "good"
    ELSE IF latency < 200 THEN "fair"
    ELSE "poor"

\* PingCommand._format_response
format_response(latency) ==
    LET quality == assess_connection_quality(latency) IN
    [kind |-> "pong",
     latency |-> IF latency < 10 THEN ToString(latency) \o ".0ms"
                 ELSE ToString(latency) \o "ms",
     note |-> IF quality = "poor" THEN "(slow connection)"
              ELSE IF quality = "excellent" THEN "(excellent)" ELSE ""]

\* PingCommand.get_latency_stats
get_latency_stats(ws) ==
    IF ws.kind = "none" THEN None
    ELSE IF ws.kind = "no_latency"
    THEN [kind |-> "stats", latency_ms |-> -1, quality |-> "unknown",
          client_ready |-> FALSE, websocket_available |-> FALSE]
    ELSE [kind |-> "stats", latency_ms |-> ws.ms,
          quality |-> assess_connection_quality(ws.ms),
          client_ready |-> TRUE, websocket_available |-> TRUE]

\* what execute_command did: it raised error or returned result, after edits
\* calls of message.edit
InnerRaised(error, edits) ==
    [raised |-> TRUE, error |-> error, result |-> NoResult, edits |-> edits]

InnerReturned(result) ==
    [raised |-> FALSE, error |-> NoError, result |-> result, edits |-> 1]

\* PingCommand.execute_command: every exception of the block, the
\* CommandError of _get_websocket_latency included, is caught and raised
\* again as CommandError LATENCY_MEASUREMENT_FAILED
ping_execute_command(env) ==
    LET measured == get_websocket_latency(env.ws) IN
    IF measured.raised THEN InnerRaised(PingFailure(ErrorText(measured.error)), 0)
    ELSE IF ~env.edit_ok THEN InnerRaised(PingFailure(EditErrorText), 1)
    ELSE IF env.debug THEN InnerRaised(PingFailure(LogErrorText), 1)
    ELSE InnerReturned(
            [success |-> TRUE, response |-> format_response(measured.value),
             error |-> "", latency |-> measured.value, response_time |-> env.took,
             metadata |-> [ws_latency |-> measured.value,
                           connection_quality |->
                               assess_connection_quality(measured.value),
                           client_ready |-> TRUE]])

\* the end of the first word of a text that starts with one
WordEnd(s) ==
    IF \E i \in 1..Len(s) : s[i] = " "
    THEN (CHOOSE i \in 1..Len(s) : s[i] = " " /\ \A j \in 1..(i - 1) : s[j] # " ") - 1
    ELSE Len(s)

\* str.split()
RECURSIVE Split(_)
Split(s) ==
    LET t == LStrip(s) IN
    IF t = <<>> THEN <<>>
    ELSE <<SubSeq(t, 1, WordEnd(t))>> \o Split(SubSeq(t, WordEnd(t) + 1, Len(t)))

\* HelpCommand._parse_arguments
parse_arguments(content) ==
    Split(Strip(SubSeq(content, Len(HelpTrigger) + 1, Len(content))))

\* CommandRegistry.get_command
get_command(cmds, trigger) ==
    IF trigger = <<>> THEN NoneCommand ELSE CommandAt(cmds, trigger)

\* HelpCommand._find_command
find_command(cmds, identifier) ==
    IF StartsWith(identifier, <<".">>) THEN get_command(cmds, identifier)
    ELSE IF get_command(cmds, <<".">> \o identifier) # NoneCommand
    THEN get_command(cmds, <<".">> \o identifier)
    ELSE LET named == {i \in 1..Len(cmds) :
                          /\ cmds[i].name \in DOMAIN NameChars
                          /\ NameChars[cmds[i].name] = identifier}
         IN  IF named = {} THEN NoneCommand
             ELSE cmds[CHOOSE i \in named : \A j \in named : i <= j]

\* HelpCommand._build_general_help: the triggers listed
build_general_help(cmds) ==
    IF cmds = <<>> THEN [kind |-> "No commands available", about |-> {}]
    ELSE [kind |-> "general", about |-> {cmds[i].trigger : i \in 1..Len(cmds)}]

\* HelpCommand._build_detailed_help: the trigger the help is for
build_detailed_help(cmds, identifier) ==
    IF find_command(cmds, identifier) = NoneCommand
    THEN [kind |-> "Command not found", about |-> {}]
    ELSE [kind |-> "Help for", about |-> {find_command(cmds, identifier).trigger}]

\* HelpCommand.execute_command
help_execute_command(env, cmds, content) ==
    LET args == parse_arguments(content)
        help_response == IF args # <<>> THEN build_detailed_help(cmds, args[1])
                         ELSE build_general_help(cmds)
    IN
    IF ~env.edit_ok THEN InnerRaised(HelpFailure(EditErrorText), 1)
    ELSE IF env.debug THEN InnerRaised(HelpFailure(LogErrorText), 1)
    ELSE InnerReturned(
            [success |-> TRUE, response |-> help_response, error |-> "",
             latency |-> -1, response_time |-> -1,
             metadata |-> [response_length |-> 1, total_commands |-> Len(cmds)]])

\* the result execute returns, with the response and the latency the pipeline
\* passes through and the name of the command it wraps
ResultOf(command, result, response, latency) ==
    [success |-> result.success, response |-> response, error |-> result.error,
     latency |-> latency, response_time |-> result.response_time,
     remaining |-> result.remaining,
     metadata |-> IF DOMAIN result.metadata = {} THEN result.metadata
                  ELSE [result.metadata EXCEPT !.command_name = command.name]]

\* what a call of execute did: the result it returned, the ledger it left,
\* the calls of message.edit it made, the notice of _handle_error, whether
\* execute_command was called, and the time it returned
Executed(result, ledger, edits, notice, inner_called, end) ==
    [result |-> result, ledger |-> ledger, edits |-> edits, notice |-> notice,
     inner_called |-> inner_called, end |-> end]

\* BaseCommand.execute from its call to its return, for the command with the
\* configuration cfg and the cooldown ledger, called at time with a message
\* of a user; inner is what execute_command does when it is called, and the
\* edit it makes takes took
execute(command, cfg, ledger, time, message, inner, took) ==
    LET user == message.author IN
    IF ~CommandEnabled(cfg)
    THEN Executed(ResultOf(command, DisabledResult(0), None, -1), ledger, 0, "", FALSE, time)
    ELSE IF ~CheckCooldown(ledger, user, time, cfg.cooldown)
    THEN Executed(ResultOf(command,
                      CooldownResult(CooldownRemaining(ledger, user, time, cfg.cooldown), 0),
                      None, -1),
                  ledger, 0, "", FALSE, time)
    ELSE IF ~ValidateMessage(message, command.trigger)
    THEN Executed(ResultOf(command, ErrorResult(InvalidMessageError, user, 0), None, -1),
                  ledger, 1, ErrorNotice(InvalidMessageError), FALSE, time)
    ELSE LET spent == IF inner.edits > 0 THEN took ELSE 0 IN
         IF inner.raised
         THEN Executed(ResultOf(command, ErrorResult(inner.error, user, spent), None, -1),
                       ledger, inner.edits + 1, ErrorNotice(inner.error), TRUE,
                       time + spent)
         ELSE Executed(ResultOf(command, EnrichedResult(inner.result, user, spent),
                                inner.result.response, inner.result.latency),
                       UpdateCooldown(ledger, user, time + spent, cfg.cooldown),
                       inner.edits, "", TRUE, time + spent)

\* the session before its first execution, in the surroundings env
NewSession(env) ==
    [env |-> env, time |-> HelpCooldown, ticks |-> 0,
     ledger |-> [ping |-> <<>>, help |-> <<>>], runs |-> <<>>, call |-> None]

\* the user executes the command called name with a message of the content
RunCommand(name, content) ==
    /\ Len(session.runs) < MaxRuns
    /\ LET command == IF name = "ping" THEN ThePing ELSE TheHelp
           cfg == IF name = "ping" THEN PingConfig ELSE HelpConfig
           message == [author |-> Self, content |-> content]
           inner == IF name = "ping" THEN ping_execute_command(session.env)
                    ELSE help_execute_command(session.env, commands, content)
           done == execute(command, cfg, session.ledger[name], session.time, message,
                           inner, session.env.took)
       IN  session' = [session EXCEPT
                          !.ledger[name] = done.ledger,
                          !.time = done.end,
                          !.runs = Append(@, [command |-> name, content |-> content,
                                              start |-> session.time, end |-> done.end,
                                              ledger |-> done.ledger,
                                              result |-> done.result,
                                              edits |-> done.edits,
                                              notice |-> done.notice,
                                              inner_called |-> done.inner_called])]
    /\ UNCHANGED <<regVars, pipeVars, statsVars, lockVars>>

\* time passes between two executions
SessionTick ==
    /\ session.ticks < MaxSessionTicks
    /\ Len(session.runs) < MaxRuns
    /\ session' = [session EXCEPT !.time = @ + PingCooldown, !.ticks = @ + 1]
    /\ UNCHANGED <<regVars, pipeVars, statsVars, lockVars>>

\* a call of _assess_connection_quality
AssessConnectionQuality(latency) ==
    /\ session' = [session EXCEPT !.call =
                      [op |-> "_assess_connection_quality", arg |-> latency,
                       value |-> assess_connection_quality(latency)]]
    /\ UNCHANGED <<regVars, pipeVars, statsVars, lockVars>>

\* a call of get_latency_stats
GetLatencyStats ==
    /\ session' = [session EXCEPT !.call =
                      [op |-> "get_latency_stats", arg |-> session.env.ws,
                       value |-> get_latency_stats(session.env.ws)]]
    /\ UNCHANGED <<regVars, pipeVars, statsVars, lockVars>>

\* a call of PingCommand.execute_command
PingExecuteCommand ==
    /\ session' = [session EXCEPT !.call =
                      [op |-> "execute_command", arg |-> session.env.ws,
                       value |-> ping_execute_command(session.env)]]
    /\ UNCHANGED <<regVars, pipeVars, statsVars, lockVars>>

\* the clock readings and the cooldowns _check_cooldown is called with go up
\* to this many ms
MaxGateTime == 3

\* a call of _check_cooldown(user) of a command whose cooldown is cooldown and
\* whose ledger is ledger, at the clock reading time
CheckCooldownCall(ledger, user, time, cooldown) ==
    /\ session' = [session EXCEPT !.call =
                      [op |-> "_check_cooldown",
                       arg |-> [ledger |-> ledger, user |-> user, time |-> time,
                                cooldown |-> cooldown],
                       value |-> CheckCooldown(ledger, user, time, cooldown)]]
    /\ UNCHANGED <<regVars, pipeVars, statsVars, lockVars>>

\* the gate is called at every clock reading, with every cooldown and every
\* ledger whose entries were written at or before that reading
NextGate ==
    \E time \in 0..MaxGateTime, cooldown \in 1..MaxGateTime, user \in Users,
       known \in SUBSET Users :
        \E ledger \in [known -> 0..time] : CheckCooldownCall(ledger, user, time, cooldown)

\* no session is under way
InitCommands ==
    /\ session = NewSession([ws |-> [kind |-> "none", ms |-> 0], debug |-> FALSE,
                             edit_ok |-> TRUE, took |-> 0])
    /\ InitLocks

NextCommands ==
    \/ \E m \in SessionMessages : RunCommand(m.name, m.content)
    \/ SessionTick

NextPing ==
    \/ \E latency \in Latencies : AssessConnectionQuality(latency)
    \/ GetLatencyStats
    \/ PingExecuteCommand

(***************************************************************************)
(* Specifications                                                          *)
(***************************************************************************)

\* every component as constructed; the command with its default configuration
Init == InitRegistry /\ InitPipelineWith({DefaultConfig}) /\ InitStats /\ InitCommands

SpecRegistry == Init /\ [][NextRegistry]_vars

\* the same, the command constructed with any configuration
InitAnyConfig == InitRegistry /\ InitPipeline /\ InitStats /\ InitCommands

SpecPipeline == InitAnyConfig /\ [][NextPipeline]_vars

\* the command the pipeline wraps, as main registers it at startup
PingCommand ==
    [name |-> CommandName, trigger |-> CommandTrigger, description |-> "d",
     has_execute |-> TRUE, enabled |-> TRUE, copy |-> 1]

\* the application once main has registered the command and the client runs
InitServing ==
    /\ commands = <<PingCommand>>
    /\ command_names = StoreByName(<<>>, PingCommand)
    /\ reg_stats = [total_registered |-> 1, total_unregistered |-> 0,
                    registration_errors |-> 0]
    /\ reg_calls = 1
    /\ reg_last = [op |-> "register", arg |-> PingCommand, outcome |-> "ok",
                   pre_commands |-> <<>>, pre_names |-> <<>>]
    /\ InitPipelineWith({DefaultConfig})
    /\ InitStats
    /\ InitCommands

SpecStats == InitServing /\ [][NextStats]_vars

SpecMatching == Init /\ [][NextMatching]_vars

\* asyncio runs every task that can run: a step that stays possible is taken
FairSpecStats == InitServing /\ [][NextStats]_vars /\ WF_vars(NextStats)

\* a command with a cooldown, enabled or not, and the tasks that call it
InitExecutionLock ==
    /\ InitRegistry
    /\ InitPipelineWith({cfg \in Configs : cfg.cooldown # 0})
    /\ InitStats
    /\ InitCommands

\* asyncio runs every task that can run, and the command of task 2 resolves;
\* nothing is assumed of the command of task 1
FairSpecExecutionLock ==
    /\ InitExecutionLock
    /\ [][NextExecutionLock]_vars
    /\ \A t \in Tasks : WF_vars(Runs(t))
    /\ WF_vars(Resolves(2))

SpecGate == Init /\ [][NextGate]_vars

SpecGateway == InitServing /\ [][NextGateway]_vars

SpecLifecycle == InitServing /\ [][NextLifecycle]_vars

\* asyncio runs every task that can run
FairSpecLifecycle == InitServing /\ [][NextLifecycle]_vars /\ WF_vars(NextLifecycle)

SpecRegistryLock == Init /\ [][NextRegistryLock]_vars

\* a session with the two commands: the registry as main fills it (ping, then
\* help) or empty, the client connected or not
InitSession ==
    /\ \/ InitRegistry
       \/ /\ commands = <<ThePing, TheHelp>>
          /\ command_names = StoreByName(StoreByName(<<>>, ThePing), TheHelp)
          /\ reg_stats = [total_registered |-> 2, total_unregistered |-> 0,
                          registration_errors |-> 0]
          /\ reg_calls = 2
          /\ reg_last = [op |-> "register", arg |-> TheHelp, outcome |-> "ok",
                         pre_commands |-> <<ThePing>>,
                         pre_names |-> StoreByName(<<>>, ThePing)]
    /\ InitPipelineWith({DefaultConfig})
    /\ InitStats
    /\ session \in {NewSession(env) : env \in SessionEnvs}
    /\ InitLocks

SpecCommands == InitSession /\ [][NextCommands]_vars

\* the ping command alone, in every surroundings
InitPing ==
    /\ InitRegistry
    /\ InitPipelineWith({DefaultConfig})
    /\ InitStats
    /\ session \in {NewSession(env) : env \in Envs}
    /\ InitLocks

SpecPing == InitPing /\ [][NextPing]_vars
(***************************************************************************)
(* Claims about the CommandRegistry (checked under SpecRegistry)           *)
(***************************************************************************)

\* C1: after any sequence of register, unregister and clear calls, every
\* trigger of the trigger mapping holds a command whose name is in the name
\* mapping, and the name mapping holds that very same command under it.
C1_TriggerEntriesAreNamed ==
    \A i \in 1..Len(commands) :
        /\ commands[i].name \in DOMAIN command_names
        /\ command_names[commands[i].name] = commands[i]

\* C1 witness: a register has replaced the command of an occupied trigger by
\* another command object and the trigger mapping is not empty.
C1_Witness ==
    /\ reg_last.op = "register"
    /\ reg_last.outcome = "ok"
    /\ HasTrigger(reg_last.pre_commands, reg_last.arg.trigger)
    /\ CommandAt(reg_last.pre_commands, reg_last.arg.trigger) # reg_last.arg
    /\ Len(commands) = 2

\* C2 (as claimed): every command of the name mapping is the command the
\* trigger mapping holds under its own trigger, and the two mappings have the
\* same size.
C2_MappingsAgree ==
    /\ \A n \in DOMAIN command_names :
          CommandAt(commands, command_names[n].trigger) = command_names[n]
    /\ Cardinality(DOMAIN command_names) = Len(commands)

\* the call was register(c) with c.name bound, before the call, to a command
\* of a different trigger
C3_NameTaken ==
    /\ reg_last.op = "register"
    /\ reg_last.arg.name \in DOMAIN reg_last.pre_names
    /\ reg_last.pre_names[reg_last.arg.name].trigger # reg_last.arg.trigger

C3_Rejected ==
    /\ reg_last.outcome = "CommandError:DUPLICATE_COMMAND_NAME"
    /\ commands = reg_last.pre_commands
    /\ command_names = reg_last.pre_names

\* C3 (as claimed): register(c) with c.name bound to a command of a different
\* trigger always fails with DUPLICATE_COMMAND_NAME and changes no mapping.
C3_DuplicateNameAlwaysRejected == C3_NameTaken => C3_Rejected

\* C3 (amended): register(c) of a command c that passes _validate_command and
\* whose name is bound to a command of a different trigger fails with
\* DUPLICATE_COMMAND_NAME and leaves both mappings as they were.
C3_ValidDuplicateNameRejected ==
    (C3_NameTaken /\ ValidateCommand(reg_last.arg) = "") => C3_Rejected

\* C3 witness: a register was rejected for a duplicate name while the registry
\* held a command.
C3_Witness ==
    /\ C3_NameTaken
    /\ ValidateCommand(reg_last.arg) = ""
    /\ reg_last.outcome = "CommandError:DUPLICATE_COMMAND_NAME"
    /\ Len(commands) >= 1

(***************************************************************************)
(* Claims about BaseCommand.execute (checked under SpecPipeline)           *)
(***************************************************************************)

\* C4 (as claimed): execute never raises; whatever the message and whatever
\* is raised inside, it returns a result.
C4_ExecuteNeverRaises == \A t \in Tasks : inv[t].pc # "raised"

\* task t is called, by user u, in this step
C5_Called(t, u) ==
    /\ inv[t].pc = "idle"
    /\ inv'[t].pc # "idle"
    /\ inv'[t].message.author = u

\* the call of t is the second of two sequential invocations by u of an
\* enabled command with a cooldown: an inner execution of u has ended and no
\* other invocation by u is in flight
C5_Second(t, u) ==
    /\ C5_Called(t, u)
    /\ config.enabled
    /\ config.cooldown > 0
    /\ last_inner[u].user = u
    /\ \A o \in Tasks \ {t} :
          inv[o].message.author = u => inv[o].pc \notin {"inner", "error_edit"}

\* the call of t is rejected by the cooldown gate
C5_Rejected(t) ==
    /\ inv'[t].pc = "done"
    /\ inv'[t].result.success = FALSE
    /\ inv'[t].result.error = "Command on cooldown"
    /\ inv'[t].inner_calls = 0
    /\ last_execution' = last_execution

\* the call of t passes the cooldown gate and, its message being valid,
\* reaches the inner execution
C5_Passed(t) ==
    /\ inv'[t].pc \in {"inner", "error_edit"}
    /\ ValidateMessage(inv'[t].message, CommandTrigger) => inv'[t].pc = "inner"

\* C5 (as claimed): the second invocation is rejected when it starts less
\* than the cooldown after the first STARTED and passes the gate when it
\* starts a cooldown or more after the first started, whatever time the first
\* inner execution took.
C5_CooldownFromFirstStart ==
    [][\A t \in Tasks, u \in Users :
          C5_Second(t, u) =>
             /\ (now - last_inner[u].start < config.cooldown) => C5_Rejected(t)
             /\ (now - last_inner[u].start >= config.cooldown) => C5_Passed(t)]_vars

\* C5 (amended): when the first inner execution returned without raising, the
\* second invocation is rejected (no inner execution, ledger unchanged) when
\* it starts less than the cooldown after the first's ledger update, made when
\* the inner execution returned, and passes the gate when it starts a cooldown
\* or more after that update.
C5_CooldownFromLedgerUpdate ==
    [][\A t \in Tasks, u \in Users :
          (C5_Second(t, u) /\ ~last_inner[u].raised) =>
             /\ (now - last_inner[u].end < config.cooldown) => C5_Rejected(t)
             /\ (now - last_inner[u].end >= config.cooldown) => C5_Passed(t)]_vars

\* C5 witness: an inner execution took time, and the same user's next
\* invocation, started exactly one cooldown after it returned, is in its
\* inner execution.
C5_Witness ==
    \E t \in Tasks :
        LET u == inv[t].message.author IN
        /\ inv[t].pc = "inner"
        /\ config.cooldown = Cooldown
        /\ last_inner[u].user = u
        /\ ~last_inner[u].raised
        /\ last_inner[u].end > last_inner[u].start
        /\ inv[t].start = last_inner[u].end + Cooldown

\* C6: a call of execute on a disabled command returns the failure
\* 'Command is currently disabled' at once, without execute_command, without
\* an edit of the message and without a change of the cooldown ledger.
C6_DisabledShortCircuit ==
    [][\A t \in Tasks :
          (inv[t].pc = "idle" /\ inv'[t].pc # "idle" /\ ~config.enabled) =>
             /\ inv'[t].pc = "done"
             /\ inv'[t].result.success = FALSE
             /\ inv'[t].result.error = "Command is currently disabled"
             /\ inv'[t].inner_calls = 0
             /\ inv'[t].edits = 0
             /\ last_execution' = last_execution]_vars

\* C6 witness: a disabled command whose ledger holds its caller returned the
\* disabled failure.
C6_Witness ==
    \E t \in Tasks :
        /\ ~config.enabled
        /\ inv[t].pc = "done"
        /\ inv[t].result.error = "Command is currently disabled"
        /\ inv[t].message.author \in DOMAIN last_execution

\* C7 (as claimed): two invocations by the same user never both pass the
\* cooldown gate, so two inner executions of one user never start less than
\* the cooldown apart.
C7_NeverBothPass ==
    \A t1 \in Tasks, t2 \in Tasks :
        ( /\ t1 # t2
          /\ config.cooldown > 0
          /\ inv[t1].pc = "inner"
          /\ inv[t2].pc = "inner"
          /\ inv[t1].message.author = inv[t2].message.author
          /\ inv[t1].start <= inv[t2].start )
        => inv[t2].start - inv[t1].start >= config.cooldown

\* C7 (amended): once an inner execution of a user has returned at time T
\* (the ledger update), no invocation of that user passes the cooldown gate
\* before T + cooldown; invocations that overlap may both pass.
C7_NoPassAfterUpdate ==
    [][\A t \in Tasks, u \in Users :
          ( /\ C5_Called(t, u)
            /\ config.cooldown > 0
            /\ inv'[t].pc = "inner"
            /\ last_inner[u].user = u
            /\ ~last_inner[u].raised )
          => now - last_inner[u].end >= config.cooldown]_vars

\* C7 witness: an invocation passed the gate after an inner execution of its
\* user had returned, while the command is enabled with a cooldown.
C7_Witness ==
    \E t \in Tasks :
        LET u == inv[t].message.author IN
        /\ inv[t].pc = "inner"
        /\ config.enabled
        /\ config.cooldown > 0
        /\ last_inner[u].user = u
        /\ ~last_inner[u].raised
        /\ u \in DOMAIN last_execution
        /\ inv[t].start >= last_execution[u] + config.cooldown

(***************************************************************************)
(* Claims about BotStatsService and the dispatcher (checked under          *)
(* SpecStats, the temporal ones under FairSpecStats)                       *)
(***************************************************************************)

\* C8 (as claimed): no operation of the BotStatsService suspends while its
\* task holds the lock of the service: a suspended task is never the owner
\* of the lock.
C8_NeverSuspendsHoldingLock ==
    \A t \in Tasks : calls[t].state = "suspended" => stats.lock.owner # t

\* the dispatcher, run by task t, was handed a message of the account whose
\* trimmed content starts with the trigger of an enabled registered command
C9_Matching(t) ==
    /\ calls[t].op = "_handle_message"
    /\ calls[t].message.author = Self
    /\ FindMatchingCommand(commands, Strip(calls[t].message.content)) # NoneCommand

\* C9 (as claimed): handed such a message, the dispatcher eventually invokes
\* the execute of the command, and once it has invoked it, it eventually has
\* called increment_commands_executed and record_command_execution.
C9_MatchingMessageIsExecuted ==
    \A t \in Tasks :
        /\ C9_Matching(t) ~> calls[t].executed
        /\ calls[t].executed ~> calls[t].recorded

\* task t called get_performance_summary or export_metrics while no other
\* call held the lock of the service
C10_Called(t) ==
    /\ calls[t].op \in {"get_performance_summary", "export_metrics"}
    /\ calls[t].free

\* C10 (as claimed): get_performance_summary and export_metrics, called on
\* an otherwise idle service, always return; the summary of a service with no
\* recorded execution has success_rate 100.
C10_SummaryAndExportReturn ==
    /\ \A t \in Tasks : C10_Called(t) ~> (calls[t].state = "returned")
    /\ [](\A t \in Tasks :
            ( /\ calls[t].op = "get_performance_summary"
              /\ calls[t].state = "returned"
              /\ calls[t].value.unique_commands_used = 0 )
            => calls[t].value.success_rate = Quotient(100, 1))

\* C11: a command for which N >= 1 executions of durations d1..dN were
\* recorded since the construction or the last reset_stats has metrics with
\* execution_count = N, total_execution_time = d1+...+dN,
\* average_execution_time = total_execution_time / N, and min_execution_time
\* and max_execution_time the smallest and the largest of the durations.
C11_MetricsMatchHistory ==
    \A n \in DOMAIN history :
        /\ n \in DOMAIN stats.command_metrics
        /\ LET executed == history[n]
               durations == {e.execution_time : e \in BagToSet(executed)}
               m == stats.command_metrics[n]
               N == BagCardinality(executed)
               total == SumOf([e \in BagToSet(executed) |-> e.execution_time * executed[e]])
           IN  /\ N >= 1
               /\ m.execution_count = N
               /\ m.total_execution_time = total
               /\ m.average_execution_time.num * N = total * m.average_execution_time.den
               /\ m.min_execution_time \in durations
               /\ m.max_execution_time \in durations
               /\ \A d \in durations :
                     m.min_execution_time <= d /\ d <= m.max_execution_time

\* C11 witness: executions of 10, 20, 20 ms were recorded for one command,
\* so that the average, 50/3, is no whole number.
C11_Witness ==
    \E n \in DOMAIN history :
        /\ {e.execution_time : e \in BagToSet(history[n])} = {10, 20}
        /\ BagCardinality(history[n]) = 3
        /\ stats.command_metrics[n].total_execution_time = 50
        /\ stats.command_metrics[n].average_execution_time = [num |-> 50, den |-> 3]

\* the number of executions recorded since the construction or the last
\* reset_stats whose outcome is among outcomes
C12_Recorded(outcomes) ==
    SumOf([n \in DOMAIN history |->
            SumOf([e \in {x \in BagToSet(history[n]) : x.success \in outcomes} |->
                    history[n][e]])])

C13_Matches(i, content) ==
    /\ StartsWith(content, commands[i].trigger)
    /\ commands[i].enabled

\* C13: _find_matching_command(content) returns no command iff no enabled
\* command has a trigger that is a prefix of content, and otherwise the
\* command at the first position of the trigger mapping (in insertion order)
\* that is enabled with a trigger that is a prefix of content: disabled
\* matches are skipped, and the first match wins over a longer one.
C13_FirstEnabledPrefixMatch ==
    [][\A t \in Tasks :
          (calls'[t] # calls[t] /\ calls'[t].op = "_find_matching_command")
          => LET content == calls'[t].message.content
                 found == calls'[t].command
             IN  /\ (found = NoneCommand)
                        <=> (\A i \in 1..Len(commands) : ~C13_Matches(i, content))
                 /\ found # NoneCommand
                        => \E i \in 1..Len(commands) :
                              /\ commands[i] = found
                              /\ C13_Matches(i, content)
                              /\ \A j \in 1..(i - 1) : ~C13_Matches(j, content)]_vars

\* C13 witness: with .p registered before .ph and both enabled, the content
\* ".phx" was matched to the command of .p.
C13_Witness ==
    \E t \in Tasks :
        /\ calls[t].op = "_find_matching_command"
        /\ calls[t].message.content = <<".", "p", "h", "x">>
        /\ calls[t].command = FindMatchingCommand(commands, calls[t].message.content)
        /\ calls[t].command.trigger = <<".", "p">>
        /\ Len(commands) = 2
        /\ commands[2].trigger = <<".", "p", "h">>
        /\ commands[2].enabled

(***************************************************************************)
(* More claims about the dispatcher and the aggregator (SpecStats,         *)
(* FairSpecStats)                                                          *)
(***************************************************************************)

\* C14 (as claimed): every message delivered to the dispatcher is eventually
\* counted in messages_processed (its handler gets past the acquire of
\* increment_messages_processed, where the counter is incremented), and the
\* handler of a message of another or of no author never invokes execute.
C14_EveryMessageCounted ==
    /\ \A t \in Tasks :
          (calls[t].op = "_handle_message")
              ~> (calls[t].op = "_handle_message"
                    /\ calls[t].at # "increment_messages_processed")
    /\ [](\A t \in Tasks :
            (calls[t].op = "_handle_message" /\ calls[t].message.author # Self)
                => ~calls[t].executed)

(***************************************************************************)
(* More claims about BaseCommand.execute (checked under SpecPipeline)      *)
(***************************************************************************)

\* the inner execution of task t returns in this step
C15_InnerReturns(t) == inv[t].pc = "inner" /\ inv'[t].pc = "done"

\* C15: for a command with a cooldown, a step in which the execute_command
\* of a user returns (whatever the success of its result) writes the time
\* into the ledger entry of that user, and no other step of execute (the
\* disabled and the cooldown fast path, a message that fails validation, an
\* execute_command that raises, the error notice) changes the ledger.
C15_LedgerWrittenIffInnerReturned ==
    [][config.cooldown > 0 =>
          /\ \A t \in Tasks :
                C15_InnerReturns(t)
                    => /\ inv[t].message.author \in DOMAIN last_execution'
                       /\ last_execution'[inv[t].message.author] = now
          /\ (\A t \in Tasks : ~C15_InnerReturns(t))
                => last_execution' = last_execution]_vars

\* C15 witness: an execute_command returned a result with success=false and
\* the ledger holds the time of that return for its user.
C15_Witness ==
    \E t \in Tasks :
        /\ config.cooldown > 0
        /\ inv[t].pc = "done"
        /\ inv[t].result.error = "inner failure"
        /\ ~inv[t].result.success
        /\ last_inner[inv[t].message.author].end = now
        /\ inv[t].message.author \in DOMAIN last_execution
        /\ last_execution[inv[t].message.author] = now

\* C16 (as claimed): every result execute returns carries the command's name
\* and the author's id, as text, in its metadata, whichever path produced it.
C16_ResultNamesCommandAndUser ==
    \A t \in Tasks :
        (inv[t].pc = "done" /\ inv[t].message.author # NoAuthor) =>
            /\ {"command_name", "user_id"} \subseteq DOMAIN inv[t].result.metadata
            /\ inv[t].result.metadata.command_name = CommandName
            /\ inv[t].result.metadata.user_id = ToString(inv[t].message.author)

\* C17 (as claimed): the notice shown after the inner logic of ping failed
\* does not depend on the text of the exception that made it fail: two
\* invocations that failed below the command show the same notice.
C17_NoticeIndependentOfExceptionText ==
    \A t1 \in Tasks, t2 \in Tasks :
        ( /\ inv[t1].cause # "" /\ inv[t1].edits = 1
          /\ inv[t2].cause # "" /\ inv[t2].edits = 1 )
            => inv[t1].notice = inv[t2].notice

\* a result execute built itself: on the disabled or the cooldown path, or
\* in its exception handler
C18_BuiltByPipeline(result) ==
    \/ DOMAIN result.metadata = {}
    \/ "error_type" \in DOMAIN result.metadata

\* C18 (as claimed): whenever execute returns a failure it built itself,
\* message.edit was attempted exactly once, with a notice.
C18_PipelineFailureIsShown ==
    \A t \in Tasks :
        (inv[t].pc = "done" /\ C18_BuiltByPipeline(inv[t].result)) =>
            /\ inv[t].edits = 1
            /\ inv[t].notice # ""

\* str(E)
C19_Str(E) == IF E.code # "" THEN "[" \o E.code \o "] " \o E.message ELSE E.message

\* C19: when the handler of execute has caught E and _handle_error is done,
\* the notice is 'Command failed: ' and E.message for a CommandError, the
\* invalid-input text for a ValidationError and the unexpected-error text for
\* anything else, and the result execute returns has success = false,
\* error = str(E) and metadata.error_type = the class name of E.
C19_NoticeByClassAndResult ==
    [][\A t \in Tasks :
          (inv[t].pc = "error_edit" /\ inv'[t].pc # "error_edit") =>
             LET E == inv[t].error IN
             /\ inv'[t].notice =
                    CASE E.type = "CommandError" -> "Command failed: " \o E.message
                      [] E.type = "ValidationError" ->
                            "Invalid input. Please check your command format."
                      [] OTHER -> "An unexpected error occurred. Please try again."
             /\ inv'[t].pc = "done" =>
                    /\ inv'[t].result.success = FALSE
                    /\ inv'[t].result.error = C19_Str(E)
                    /\ inv'[t].result.metadata.error_type = E.type]_vars

\* C19 witness: of two invocations that returned from the handler, one shows
\* the message of ping's CommandError and one the invalid-input text.
C19_Witness ==
    \E t1 \in Tasks, t2 \in Tasks :
        /\ inv[t1].pc = "done"
        /\ inv[t1].notice = "Command failed: Failed to measure latency: Missing Permissions"
        /\ inv[t1].result.error =
              "[LATENCY_MEASUREMENT_FAILED] Failed to measure latency: Missing Permissions"
        /\ inv[t1].result.metadata.error_type = "CommandError"
        /\ inv[t2].pc = "done"
        /\ inv[t2].notice = "Invalid input. Please check your command format."
        /\ inv[t2].result.error = "[INVALID_MESSAGE] Invalid message format or content"
        /\ inv[t2].result.metadata.error_type = "ValidationError"

(***************************************************************************)
(* More claims about CommandRegistry (checked under SpecRegistry)          *)
(***************************************************************************)

\* the step is a call of unregister
C20_Unregistered == reg_calls' # reg_calls /\ reg_last'.op = "unregister"

\* C20: unregister(t) returns true iff t was a key of the trigger mapping.
\* When it returns true, t is no key of the trigger mapping afterwards, the
\* removed command's name is no key of the name mapping, and every other
\* entry of both mappings is what it was, in the same order.  When it returns
\* false, both mappings and all counters are what they were.
C20_UnregisterFrame ==
    [][C20_Unregistered =>
          LET t == reg_last'.arg
              removed == CommandAt(commands, t)
              Other(c) == c.trigger # t
          IN
          /\ (reg_last'.outcome = "true") <=>
                 (\E i \in 1..Len(commands) : commands[i].trigger = t)
          /\ reg_last'.outcome \in {"true", "false"}
          /\ (reg_last'.outcome = "true") =>
                 /\ ~(\E i \in 1..Len(commands') : commands'[i].trigger = t)
                 /\ removed.name \notin DOMAIN command_names'
                 /\ commands' = SelectSeq(commands, Other)
                 /\ DOMAIN command_names' = (DOMAIN command_names) \ {removed.name}
                 /\ \A n \in DOMAIN command_names' : command_names'[n] = command_names[n]
          /\ (reg_last'.outcome = "false") =>
                 /\ commands' = commands
                 /\ command_names' = command_names
                 /\ reg_stats' = reg_stats]_vars

\* C20 witness: unregister returned true in a registry of two commands and
\* left the other command in both mappings; and the name mapping held an
\* entry of the removed name before.
C20_Witness ==
    /\ reg_last.op = "unregister"
    /\ reg_last.outcome = "true"
    /\ Len(reg_last.pre_commands) = 2
    /\ Len(commands) = 1
    /\ DOMAIN command_names = {commands[1].name}
    /\ Cardinality(DOMAIN reg_last.pre_names) = 2

\* the step is a call of register
C21_Registered == reg_calls' # reg_calls /\ reg_last'.op = "register"

\* the command is absent, lacks a name, a description, a trigger or a callable
\* execute, or its trigger does not start with '.'
C21_Malformed(c) ==
    \/ c = NoneCommand
    \/ c.name = ""
    \/ c.description = ""
    \/ c.trigger = <<>>
    \/ ~c.has_execute
    \/ Head(c.trigger) # "."

\* the name of c is held by a command of another trigger
C21_NameHeldElsewhere(c) ==
    c.name \in DOMAIN command_names /\ command_names[c.name].trigger # c.trigger

C21_ValidationErrors ==
    {"ValidationError:NULL_COMMAND", "ValidationError:MISSING_NAME",
     "ValidationError:MISSING_DESCRIPTION", "ValidationError:MISSING_TRIGGER",
     "ValidationError:MISSING_EXECUTE_METHOD", "ValidationError:INVALID_TRIGGER_FORMAT"}

C22_FrameOfReset ==
    /\ [][\A t \in Tasks :
             (ResetStats(t) /\ calls'[t].state = "returned") =>
                 /\ stats'.commands_executed = 0
                 /\ stats'.messages_processed = 0
                 /\ stats'.command_metrics = <<>>
                 /\ stats'.start_time = stats.start_time
                 /\ stats'.current_status = stats.current_status
                 /\ stats'.last_activity = stats.last_activity]_vars
    /\ [][stats'.start_time = stats.start_time]_vars

\* C22 (as claimed): a call of reset_stats completes and sets
\* commands_executed and messages_processed to 0 and empties the per-command
\* metrics, leaving start_time, the status and last_activity as they were;
\* and no step of any operation changes start_time.
C22_ResetStatsResets ==
    /\ \A t \in Tasks :
          (calls[t].op = "reset_stats") ~> (calls[t].state = "returned")
    /\ C22_FrameOfReset

\* the step is a reset_stats that returned
C23_Reset == \E t \in Tasks : ResetStats(t) /\ calls'[t].state = "returned"

\* C23: in every step that is not a reset_stats, commands_executed and
\* messages_processed do not decrease, every command that has metrics keeps
\* them, and its execution_count, success_count and error_count do not
\* decrease.
C23_CountersNeverDecrease ==
    [][~C23_Reset =>
          /\ stats'.commands_executed >= stats.commands_executed
          /\ stats'.messages_processed >= stats.messages_processed
          /\ \A n \in DOMAIN stats.command_metrics :
                /\ n \in DOMAIN stats'.command_metrics
                /\ stats'.command_metrics[n].execution_count
                      >= stats.command_metrics[n].execution_count
                /\ stats'.command_metrics[n].success_count
                      >= stats.command_metrics[n].success_count
                /\ stats'.command_metrics[n].error_count
                      >= stats.command_metrics[n].error_count]_vars

\* C23 witness: since the last reset_stats a command was recorded once with
\* success and once with failure, and commands_executed was incremented.
C23_Witness ==
    /\ \E t \in Tasks : calls[t].op = "reset_stats" /\ calls[t].state = "returned"
    /\ "test" \in DOMAIN stats.command_metrics
    /\ stats.command_metrics["test"].execution_count = 2
    /\ stats.command_metrics["test"].success_count = 1
    /\ stats.command_metrics["test"].error_count = 1
    /\ stats.commands_executed = 1

(***************************************************************************)
(* Claims about PingCommand and HelpCommand (checked under SpecCommands    *)
(* and SpecPing)                                                           *)
(***************************************************************************)

\* the surroundings of the unit tests: both commands registered, a client
\* connected with a latency of 50 ms, a message.edit that works, and no
\* DEBUG records
C24_Working ==
    /\ commands = <<ThePing, TheHelp>>
    /\ session.env.ws = [kind |-> "connected", ms |-> 50]
    /\ session.env.edit_ok
    /\ ~session.env.debug

\* the first three executions of the session are '.ping' on ping, then, at
\* once, '.help' on help, and then '.help ping' on help
C24_Three ==
    /\ C24_Working
    /\ Len(session.runs) >= 3
    /\ session.runs[1].command = "ping" /\ session.runs[1].content = PingTrigger
    /\ session.runs[2].command = "help" /\ session.runs[2].content = HelpTrigger
    /\ session.runs[2].start = session.runs[1].end
    /\ session.runs[3].command = "help"
    /\ session.runs[3].content = HelpTrigger \o <<" ">> \o NameChars.ping

\* the third execution returned the detailed help for ping
C24_DetailedHelp ==
    /\ session.runs[3].result.success
    /\ session.runs[3].result.response = [kind |-> "Help for", about |-> {PingTrigger}]

C24_LaterWitness == C24_Three /\ C24_DetailedHelp

\* C25: when the client has no WebSocket connection (client.ws is None),
\* PingCommand.execute_command raises a CommandError whose error_code is
\* NO_WEBSOCKET.
C25_NoWebsocketCode ==
    (session.call # None /\ session.call.op = "execute_command"
        /\ session.env.ws.kind = "none")
    => /\ session.call.value.raised
       /\ session.call.value.error.type = "CommandError"
       /\ session.call.value.error.code = "NO_WEBSOCKET"

\* C26: a successful execution of ping or help through execute edits the
\* message exactly once and returns success with a response, no error and a
\* response time that is set and not negative; every failure result carries
\* an error and a response time that is set and not negative.
C26_WellFormedResults ==
    \A i \in 1..Len(session.runs) :
        LET run == session.runs[i] IN
        /\ run.result.response_time >= 0
        /\ run.result.success
            => /\ run.edits = 1
               /\ run.result.response # None
               /\ run.result.error = ""
        /\ ~run.result.success
            => /\ run.result.error # ""
               /\ run.result.response = None

\* a session in which ping and help each succeeded and one execution failed
C26_Witness ==
    /\ \E i \in 1..Len(session.runs) :
          session.runs[i].command = "ping" /\ session.runs[i].result.success
    /\ \E i \in 1..Len(session.runs) :
          session.runs[i].command = "help" /\ session.runs[i].result.success
    /\ \E i \in 1..Len(session.runs) : ~session.runs[i].result.success

\* C27: _assess_connection_quality gives excellent for 25, good for 75, fair
\* for 150 and poor for 250 ms, and with a WebSocket latency of exactly 50 ms
\* get_latency_stats returns latency_ms 50 with quality excellent.
C27_QualityAsTestsState ==
    /\ (session.call # None /\ session.call.op = "_assess_connection_quality")
        => /\ session.call.arg = 25 => session.call.value = "excellent"
           /\ session.call.arg = 75 => session.call.value = "good"
           /\ session.call.arg = 150 => session.call.value = "fair"
           /\ session.call.arg = 250 => session.call.value = "poor"
    /\ (session.call # None /\ session.call.op = "get_latency_stats"
            /\ session.call.arg = [kind |-> "connected", ms |-> 50])
        => /\ session.call.value.latency_ms = 50
           /\ session.call.value.quality = "excellent"

\* the part of C27 about the four latencies inside the bands
C27_InsideTheBands ==
    (session.call # None /\ session.call.op = "_assess_connection_quality")
        => /\ session.call.arg = 25 => session.call.value = "excellent"
           /\ session.call.arg = 75 => session.call.value = "good"
           /\ session.call.arg = 150 => session.call.value = "fair"
           /\ session.call.arg = 250 => session.call.value = "poor"

(***************************************************************************)
(* Claims about the locks and the order of the gates                       *)
(***************************************************************************)

\* C28: the cooldown lock of a command is never held by an invocation whose
\* execute_command runs (nor while it waits in _handle_error or has
\* returned), and whatever the invocation of task 1 does, never resolving
\* its execute_command included, every invocation of task 2 runs to its
\* return.
C28_InnerRunsOutsideTheLock ==
    /\ [](\A t \in Tasks :
            inv[t].pc \in {"idle", "inner", "error_edit", "done"}
                => t \notin execution_lock)
    /\ (inv[2].pc # "idle") ~> (inv[2].pc = "done")

\* task 1 is inside its execute_command, and an invocation of another user
\* that began later has passed the cooldown check, run its execute_command
\* and written the ledger
C28_Witness ==
    /\ inv[1].pc = "inner"
    /\ inv[2].pc = "done"
    /\ inv[2].result.success
    /\ inv[2].message.author # inv[1].message.author
    /\ inv[2].message.author \in DOMAIN last_execution
    /\ last_inner[inv[2].message.author].start > inv[1].start

\* C29: a task reads or writes the registry's mappings only inside the
\* registry lock, at most one task is inside the lock, and no reading method
\* reads while a register, unregister or clear is between its two writes.
C29_RegistryLockGuards ==
    /\ \A t \in Tasks :
          reg_tasks[t].pc \in {"locked", "half", "leaving"} => t \in registry_lock
    /\ Cardinality(registry_lock) <= 1
    /\ \A t \in Tasks : ~reg_tasks[t].torn

\* a register is between its two writes while a reading method waits for the
\* lock
C29_Witness ==
    \E t, u \in Tasks :
        /\ reg_tasks[t].pc = "half"
        /\ reg_tasks[t].op = "register"
        /\ reg_tasks[u].pc = "waiting"
        /\ reg_tasks[u].op \in {"get_command", "get_command_by_name",
                                "get_all_commands", "get_stats"}

\* C30: execute passes the gates in the order enabled, cooldown, validation,
\* inner execution, enrichment and stops at the first that fails: a disabled
\* command returns the disabled result whatever the ledger says, a user on
\* cooldown gets the cooldown result whatever the content is, execute_command
\* is called exactly when the three gates passed, and only the result of an
\* execute_command that returned is enriched.
C30_GatesInOrder ==
    [][\A t \in Tasks :
        /\ \A m \in Messages :
              Execute(t, m) =>
                /\ ~config.enabled =>
                      /\ inv'[t].pc = "done"
                      /\ inv'[t].result.error = "Command is currently disabled"
                      /\ inv'[t].inner_calls = 0
                /\ (config.enabled /\ m.author # NoAuthor
                      /\ ~CheckCooldown(last_execution, m.author, now, config.cooldown)) =>
                      /\ inv'[t].pc = "done"
                      /\ inv'[t].result.error = "Command on cooldown"
                      /\ inv'[t].inner_calls = 0
                /\ (inv'[t].pc = "inner" /\ inv'[t].inner_calls = 1)
                      <=> /\ config.enabled
                          /\ CheckCooldown(last_execution, m.author, now, config.cooldown)
                          /\ ValidateMessage(m, CommandTrigger)
                /\ inv'[t].inner_calls = 0 => inv'[t].pc # "inner"
        /\ (inv[t].pc # inv'[t].pc /\ inv'[t].pc = "done"
                /\ "command_name" \in DOMAIN inv'[t].result.metadata
                /\ "error_type" \notin DOMAIN inv'[t].result.metadata)
              => inv[t].pc = "inner" /\ inv[t].inner_calls = 1
      ]_vars

\* a disabled command has returned the disabled result to a user who is on
\* cooldown
C30_Witness ==
    \E t \in Tasks :
        /\ inv[t].pc = "done"
        /\ inv[t].result.error = "Command is currently disabled"
        /\ config.cooldown # 0
        /\ inv[t].message.author \in DOMAIN last_execution
        /\ ~CheckCooldown(last_execution, inv[t].message.author, now, config.cooldown)

\* a user on cooldown has got the cooldown result for a message whose content
\* validation would reject
C30_CooldownBeforeValidation ==
    \E t \in Tasks :
        /\ inv[t].pc = "done"
        /\ inv[t].result.error = "Command on cooldown"
        /\ ~ValidateMessage(inv[t].message, CommandTrigger)

(***************************************************************************)
(* Claims about the gates, the registry's names and counters, the          *)
(* aggregator's records and the life of the service                        *)
(***************************************************************************)

\* C31: for an enabled command and a user not on cooldown, a message whose
\* content is empty or, trimmed, does not start with the trigger is rejected
\* as a validation failure: execute_command is not called, the ledger stays
\* as it was, and the result returned has success = false and
\* metadata.error_type = 'ValidationError'.
C31_InvalidMessageRejected ==
    [][\A t \in Tasks :
        /\ \A m \in Messages :
              (/\ Execute(t, m)
               /\ config.enabled
               /\ m.author # NoAuthor
               /\ CheckCooldown(last_execution, m.author, now, config.cooldown)
               /\ \/ m.content = <<>>
                  \/ ~StartsWith(Strip(m.content), CommandTrigger))
              => /\ inv'[t].pc = "error_edit"
                 /\ inv'[t].error.type = "ValidationError"
                 /\ inv'[t].inner_calls = 0
                 /\ last_execution' = last_execution
        /\ (/\ inv[t].pc = "error_edit"
            /\ inv[t].error.type = "ValidationError"
            /\ inv'[t].pc # "error_edit")
              => /\ inv'[t].pc = "done"
                 /\ ~inv'[t].result.success
                 /\ inv'[t].result.metadata.error_type = "ValidationError"
                 /\ inv'[t].inner_calls = 0
                 /\ last_execution' = last_execution
      ]_vars

\* an enabled command with a cooldown has returned the validation failure to
\* a user who was not on cooldown, for a content that is not the trigger
C31_Witness ==
    \E t \in Tasks :
        /\ inv[t].pc = "done"
        /\ config.enabled /\ config.cooldown # 0
        /\ inv[t].message.content = <<"x">>
        /\ ~inv[t].result.success
        /\ DOMAIN inv[t].result.metadata # {}
        /\ inv[t].result.metadata.error_type = "ValidationError"
        /\ inv[t].inner_calls = 0

\* C32: a user who has no entry in the ledger passes the cooldown gate, for
\* every cooldown above 0 and every clock reading.
C32_FirstInvocationPasses ==
    (/\ session.call # None
     /\ session.call.op = "_check_cooldown"
     /\ session.call.arg.cooldown > 0
     /\ session.call.arg.user \notin DOMAIN session.call.arg.ledger)
    => session.call.value

\* the part of C32 that holds: a user without an entry passes at every clock
\* reading that is at least the cooldown
C32_PassesOnceTheClockIsPastTheCooldown ==
    (/\ session.call # None
     /\ session.call.op = "_check_cooldown"
     /\ session.call.arg.user \notin DOMAIN session.call.arg.ledger
     /\ session.call.arg.time >= session.call.arg.cooldown)
    => session.call.value

\* C33: register fails with DUPLICATE_COMMAND_NAME only if a command with that
\* name is in the trigger mapping under a different trigger at the time of
\* the call.
C33_DuplicateOnlyIfRetrievable ==
    (/\ reg_last.op = "register"
     /\ reg_last.outcome = "CommandError:DUPLICATE_COMMAND_NAME")
    => \E i \in 1..Len(reg_last.pre_commands) :
          /\ reg_last.pre_commands[i].name = reg_last.arg.name
          /\ reg_last.pre_commands[i].trigger # reg_last.arg.trigger

\* the part of C33 that holds: an unregister that removes a command frees the
\* name of that command
C33_UnregisteredNameIsFree ==
    [][\A trigger \in TriggerInputs :
          (Unregister(trigger) /\ reg_last'.outcome = "true")
          => CommandAt(commands, trigger).name \notin DOMAIN command_names']_vars

\* C39: total_registered - total_unregistered is the number of commands in the
\* trigger mapping, and registration_errors counts the register calls that
\* failed.
C39_CountersAccountForContents ==
    reg_stats.total_registered - reg_stats.total_unregistered = Len(commands)

\* the second half of C39, step by step: a register call that fails adds 1 to
\* registration_errors
C39_FailedRegisterIsCounted ==
    [][\A command \in CommandInputs :
          (Register(command) /\ reg_last'.outcome # "ok")
          => reg_stats'.registration_errors = reg_stats.registration_errors + 1]_vars

\* what does hold of the counters: each one only grows, by at most 1 a call,
\* and total_unregistered counts the unregister calls that returned True
C39_CountersGrowByCalls ==
    [][/\ reg_stats'.total_registered \in {reg_stats.total_registered, reg_stats.total_registered + 1}
       /\ reg_stats'.registration_errors \in {reg_stats.registration_errors, reg_stats.registration_errors + 1}
       /\ reg_stats'.total_unregistered =
             reg_stats.total_unregistered
             + (IF reg_last'.op = "unregister" /\ reg_last'.outcome = "true" /\ reg_calls' # reg_calls
                THEN 1 ELSE 0)]_vars

\* C38: in every per-command metrics record success_count + error_count =
\* execution_count, and a name has a record exactly if an execution was
\* recorded under it since construction or the last reset_stats (history holds
\* the executions whose record_command_execution ran since then).
C38_MetricsRecordsAreConsistent ==
    /\ \A n \in DOMAIN stats.command_metrics :
          /\ stats.command_metrics[n].success_count + stats.command_metrics[n].error_count
                = stats.command_metrics[n].execution_count
          /\ stats.command_metrics[n].command_name = n
    /\ DOMAIN stats.command_metrics = DOMAIN history
    /\ \A n \in DOMAIN history :
          stats.command_metrics[n].execution_count = BagCardinality(history[n])

\* a record that has counted a success and a failure
C38_Witness ==
    \E n \in DOMAIN stats.command_metrics :
        /\ stats.command_metrics[n].success_count >= 1
        /\ stats.command_metrics[n].error_count >= 1
        /\ BagCardinality(history[n]) = stats.command_metrics[n].execution_count

\* a reset_stats has returned after an execution was recorded, and no record
\* is left
C38_WitnessReset ==
    \E t \in Tasks :
        /\ calls[t].op = "reset_stats"
        /\ calls[t].state = "returned"
        /\ stats.command_metrics = <<>>
        /\ \E u \in Tasks : calls[u].op = "record_command_execution" /\ calls[u].state = "returned"

\* C34: when the gateway delivers ready or resumed to the client as
\* DiscordService.__init__ wires it, the aggregator's status becomes
\* connected; on disconnect it becomes disconnected, on a client error error.
C34_EventsSetTheStatus ==
    [][\A t \in Tasks, event \in StatusEvents :
          (GatewayEvent(t, event) /\ calls'[t].state = "returned")
          => stats'.current_status = StatusOf(event)]_vars

\* what the code does instead: every handler of the aggregator has been
\* replaced, and the status stays the one of construction
C34_StatusStaysDisconnected ==
    /\ \A event \in GatewayEvents : ClientHandlers[event] = "DiscordService"
    /\ stats.current_status = "disconnected"

\* C35: after DiscordSelfBot.stop() is called with metrics enabled (the stats
\* service is always present), stop() eventually returns.
C35_StopReturns ==
    (service.app_stop # "idle" /\ service.enable_metrics)
        ~> (service.app_stop = "returned")

\* the part of C35 that holds: with metrics disabled stop() returns
C35_StopReturnsWithoutMetrics ==
    (service.app_stop # "idle" /\ ~service.enable_metrics)
        ~> (service.app_stop = "returned")

\* where C35 stops: _cleanup waits in export_metrics for the lock of the
\* aggregator, which the same call holds
C35_CleanupWaitsForItsOwnLock ==
    service.app_stop = "cleanup"
    => /\ stats.lock.locked
       /\ stats.lock.owner = StopTask
       /\ StopTask \in {stats.lock.waiters[i] : i \in 1..Len(stats.lock.waiters)}

\* C36: whenever a start() that went on to log in returns or raises,
\* is_running is false.
C36_NotRunningWhenStartIsOver ==
    [][(/\ service.start \in {"login", "waiting"}
        /\ service'.start \in {"returned", "raised"})
       => ~service'.is_running]_vars

\* the consequence C36 names: once the connection has ended on its own and
\* start() has returned, the loop 'while bot.is_running' of main exits
C36_MainLoopExits ==
    (/\ service.start = "returned"
     /\ service.connection = "returned"
     /\ service.stops = 0)
    => ~bot_is_running(service)

\* the part of C36 that holds: is_running is false when start() raises, and
\* once a stop() that found the service running has returned
C36_NotRunningAfterRaiseOrStop ==
    [][/\ (service.start # "raised" /\ service'.start = "raised") => ~service'.is_running
       /\ (service.stop # "returned" /\ service'.stop = "returned") => ~service'.is_running]_vars

\* C37: a start() made after a start() and a completed stop() keeps the
\* connection task running until stop() is called again: it returns only
\* when the connection has ended or stop() was called since.
C37_RestartKeepsRunning ==
    [][(/\ service.starts >= 2
        /\ service.stop_at_start = "returned"
        /\ service.start = "waiting"
        /\ service'.start = "returned")
       => \/ service.connection # "up"
          \/ service.stops > service.stops_at_start]_vars

\* the part of C37 that holds: the first start() returns only when the
\* connection has ended or stop() was called
C37_FirstStartKeepsRunning ==
    [][(/\ service.starts = 1
        /\ service.start = "waiting"
        /\ service'.start = "returned")
       => \/ service.connection # "up"
          \/ service.stops > service.stops_at_start]_vars

====
